---- MODULE Spec2Model ----
(***************************************************************************)
(* Metrics normalization and report assembly of the page-speed analysis    *)
(* agent: the threshold classifier and the lab normalizer                  *)
(* (pagespeed-insights/scripts/fetch_psi.py), the field normalizer         *)
(* (crux-data/scripts/fetch_crux.py) and the network trace aggregator      *)
(* (playwright-network/scripts/capture_network.py).                        *)
(*                                                                         *)
(* Numbers.  A provider value (milliseconds, or the unitless CLS score) is *)
(* a Python float.  It is modelled as an integer count of 1/Scale of the   *)
(* provider unit, so 2500 ms is 2500 * Scale and a CLS of 0.1 is           *)
(* Scale \div 10.  A display value is an integer count of its display      *)
(* precision: round(x, 2) seconds is a count of 0.01 s, round(x, 0)        *)
(* milliseconds a count of 1 ms, round(x, 3) a count of 0.001.             *)
(***************************************************************************)
EXTENDS Integers, Sequences, FiniteSets, TLC

VARIABLES
    pc,                 \* position of the operation being run
    module,             \* classifier: which script's get_status is called
    metric,             \* classifier: get_status' metric argument
    value,              \* classifier: get_status' value argument
    status,             \* classifier: get_status' result
    lighthouse_result,  \* lab normalizer: the provider document
    metrics,            \* lab normalizer: parse_lighthouse_metrics' result
    opportunities,      \* lab normalizer: parse_opportunities' result
    record,             \* field normalizer: the provider record
    parsed,             \* field normalizer: parse_crux_metrics' result
    request_map,        \* network capture: the dict url -> RequestData, in dict order
    result,             \* network capture: capture_network's return value
    n_events,           \* network capture: request and response events so far
    n_entries,          \* network capture: resource-timing entries applied so far
    requested,          \* history: per URL, the number of request events seen for it
    last_written,       \* history: per URL, the value each event last supplied per field
    since_request,      \* history: per URL, what arrived since its last request event
    data_file,          \* report: what the --data path holds
    data,               \* report: the collected data main has loaded
    wb,                 \* report: the workbook, its sheets in order
    to_build,           \* report: the sheet builders still to be invoked, in order
    built,              \* history: the sheet builders invoked so far, in order
    saved,              \* report: the workbook file written, if any
    report,             \* report: main's exit code and printed result
    args,               \* lab fetch: the command line of fetch_psi.py
    responses,          \* lab fetch: per strategy, how the provider answers
    to_fetch,           \* lab fetch: the strategies the loop of main still has to take
    psi_output,         \* lab fetch: main's result dict
    calls,              \* history: the strategies fetch_psi was called for, in order
    psi_exit,           \* lab fetch: the output written and main's return value
    displayed,          \* conversion: the (display value, unit) pair returned
    cell_value,         \* sanitizer: sanitize_for_excel's value argument
    length_limit,       \* sanitizer: sanitize_for_excel's max_length argument
    sanitized,          \* sanitizer: sanitize_for_excel's result
    crux_query,         \* field fetch: fetch_crux' url, origin and form_factor arguments
    crux_response,      \* field fetch: how the provider answers
    crux_result,        \* field fetch: fetch_crux' result
    diagnostics,        \* lab normalizer: parse_diagnostics' result
    messages,           \* agent client: the SDK's stream and how much of it was yielded
    locals,             \* agent client: run_claude_code's local variables
    client_result,      \* agent client: run_claude_code's return value
    agent_result,       \* engine: the ClaudeCodeResult analyze_pages gets
    report_file,        \* engine: the markdown report file written, if any
    outcome             \* engine: analyze_pages' return value or exception

vars == <<pc, module, metric, value, status, lighthouse_result, metrics,
          opportunities, record, parsed, request_map, result, n_events,
          n_entries, requested, last_written, since_request, data_file, data, wb,
          to_build, built, saved, report, args, responses, to_fetch, psi_output,
          calls, psi_exit, displayed, cell_value, length_limit, sanitized, crux_query,
          crux_response, crux_result, diagnostics, messages, locals, client_result,
          agent_result, report_file, outcome>>

classifyVars == <<module, metric, value, status>>
labVars == <<lighthouse_result, metrics, opportunities>>
fieldVars == <<record, parsed>>
netVars == <<request_map, result, n_events, n_entries, requested, last_written,
            since_request>>
reportVars == <<data_file, data, wb, to_build, built, saved, report>>
\* The variables of the operations that follow the network capture.
fetchVars == <<args, responses, to_fetch, psi_output, calls, psi_exit>>
convertVars == <<displayed>>
sanitizeVars == <<cell_value, length_limit, sanitized>>
cruxVars == <<crux_query, crux_response, crux_result>>
diagVars == <<diagnostics>>
clientVars == <<messages, locals, client_result>>
engineVars == <<agent_result, report_file, outcome>>
lateVars == <<convertVars, sanitizeVars, cruxVars, diagVars, clientVars, engineVars>>
moreVars == <<reportVars, fetchVars, lateVars>>

\* Python's None, and a dict key that is not there.
None == "None"

Scale == 10 * 1000

\* dict.get(key, default)
Get(d, key, default) == IF key \in DOMAIN d THEN d[key] ELSE default

\* The empty dict {}.
EmptyDict == [k \in {} |-> None]

\* Python's round() to a multiple of d of the value n (both counted in the
\* same unit): round half to even, the result counted in units of d.
Round(n, d) ==
    LET q == n \div d
        r == n % d
    IN  IF 2 * r < d THEN q
        ELSE IF 2 * r > d THEN q + 1
        ELSE IF q % 2 = 0 THEN q ELSE q + 1

\* str.lower() on the metric names the scripts meet.
Lower(s) ==
    CASE s = "LCP" -> "lcp"
      [] s = "CLS" -> "cls"
      [] s = "LARGEST_CONTENTFUL_PAINT" -> "largest_contentful_paint"
      [] OTHER -> s

(***************************************************************************)
(* Threshold classifier, fetch_psi.py                                      *)
(***************************************************************************)
psi_CWV_THRESHOLDS ==
    [lcp  |-> [good |-> 2500 * Scale, poor |-> 4000 * Scale, unit |-> "ms"],
     inp  |-> [good |-> 200 * Scale,  poor |-> 500 * Scale,  unit |-> "ms"],
     cls  |-> [good |-> Scale \div 10, poor |-> Scale \div 4, unit |-> ""],
     fcp  |-> [good |-> 1800 * Scale, poor |-> 3000 * Scale, unit |-> "ms"],
     ttfb |-> [good |-> 800 * Scale,  poor |-> 1800 * Scale, unit |-> "ms"]]

\* value <= thresholds.get(key, float("inf"))
LeqThreshold(v, thresholds, key) ==
    IF key \in DOMAIN thresholds THEN v <= thresholds[key] ELSE TRUE

\* value < thresholds.get(key, float("inf")): the comparison of a classifier
\* that puts a value equal to a threshold into the worse band.
LtThreshold(v, thresholds, key) ==
    IF key \in DOMAIN thresholds THEN v < thresholds[key] ELSE TRUE

psi_get_status_strict(m, v) ==
    LET thresholds == Get(psi_CWV_THRESHOLDS, Lower(m), EmptyDict)
    IN  IF LtThreshold(v, thresholds, "good") THEN "good"
        ELSE IF LtThreshold(v, thresholds, "poor") THEN "needs_improvement"
        ELSE "poor"

psi_get_status(m, v) ==
    LET thresholds == Get(psi_CWV_THRESHOLDS, Lower(m), EmptyDict)
    IN  IF LeqThreshold(v, thresholds, "good") THEN "good"
        ELSE IF LeqThreshold(v, thresholds, "poor") THEN "needs_improvement"
        ELSE "poor"

\* convert_to_display_unit: <<display value, unit>>.
\* convert_to_display_unit that leaves out the division by 1000.
ConvertWithoutDivision(m, value_ms) ==
    IF Lower(m) \in {"lcp", "fcp", "ttfb"} THEN <<Round(value_ms, Scale \div 100), "s">>
    ELSE IF Lower(m) \in {"inp", "tbt"} THEN <<Round(value_ms, Scale), "ms">>
    ELSE IF Lower(m) = "cls" THEN <<Round(value_ms, Scale \div 1000), "">>
    ELSE <<Round(value_ms, Scale \div 100), "ms">>

convert_to_display_unit(m, value_ms) ==
    IF Lower(m) \in {"lcp", "fcp", "ttfb"} THEN <<Round(value_ms, Scale * 10), "s">>
    ELSE IF Lower(m) \in {"inp", "tbt"} THEN <<Round(value_ms, Scale), "ms">>
    ELSE IF Lower(m) = "cls" THEN <<Round(value_ms, Scale \div 1000), "">>
    ELSE <<Round(value_ms, Scale \div 100), "ms">>

(***************************************************************************)
(* Threshold classifier, fetch_crux.py                                     *)
(***************************************************************************)
crux_CWV_THRESHOLDS ==
    [largest_contentful_paint |->
        [good |-> 2500 * Scale, poor |-> 4000 * Scale, unit |-> "ms", display |-> "s"],
     interaction_to_next_paint |->
        [good |-> 200 * Scale, poor |-> 500 * Scale, unit |-> "ms", display |-> "ms"],
     cumulative_layout_shift |->
        [good |-> Scale \div 10, poor |-> Scale \div 4, unit |-> "", display |-> ""],
     first_contentful_paint |->
        [good |-> 1800 * Scale, poor |-> 3000 * Scale, unit |-> "ms", display |-> "s"],
     experimental_time_to_first_byte |->
        [good |-> 800 * Scale, poor |-> 1800 * Scale, unit |-> "ms", display |-> "s"],
     first_input_delay |->
        [good |-> 100 * Scale, poor |-> 300 * Scale, unit |-> "ms", display |-> "ms"]]

METRIC_DISPLAY_NAMES ==
    [largest_contentful_paint |-> "lcp",
     interaction_to_next_paint |-> "inp",
     cumulative_layout_shift |-> "cls",
     first_contentful_paint |-> "fcp",
     experimental_time_to_first_byte |-> "ttfb",
     first_input_delay |-> "fid"]

crux_get_status(metric_key, p75_value) ==
    LET thresholds == Get(crux_CWV_THRESHOLDS, metric_key, EmptyDict)
    IN  IF LeqThreshold(p75_value, thresholds, "good") THEN "good"
        ELSE IF LeqThreshold(p75_value, thresholds, "poor") THEN "needs_improvement"
        ELSE "poor"

\* convert_p75: <<display value, unit>>.
convert_p75(metric_key, v) ==
    LET thresholds == Get(crux_CWV_THRESHOLDS, metric_key, EmptyDict)
        display == Get(thresholds, "display", "ms")
    IN  IF display = "s" THEN <<Round(v, Scale * 10), "s">>
        ELSE IF display = "ms" THEN <<Round(v, Scale), "ms">>
        ELSE <<Round(v, Scale \div 1000), "">>

(***************************************************************************)
(* The inputs of the classifier: every metric name of either script, and   *)
(* raw values on a grid around each threshold.  The grid step is a fifth   *)
(* of the display precision of the kind, so neighbours of a threshold      *)
(* round to the threshold itself.                                          *)
(***************************************************************************)
Spread == 3

PsiMetricNames == {"lcp", "inp", "cls", "fcp", "ttfb", "tbt", "speed_index", "fid", "LCP"}
CruxMetricKeys == DOMAIN crux_CWV_THRESHOLDS \cup {"round_trip_time"}

\* The display precision of a kind, in raw units.
Precision(unit) ==
    IF unit = "s" THEN Scale * 10 ELSE IF unit = "ms" THEN Scale ELSE Scale \div 1000

GridAround(t, unit) == {t + i * (Precision(unit) \div 5) : i \in -Spread..Spread}

PsiGrid(m) ==
    LET key == IF Lower(m) \in DOMAIN psi_CWV_THRESHOLDS THEN Lower(m) ELSE "lcp"
        unit == convert_to_display_unit(m, 0)[2]
    IN  GridAround(psi_CWV_THRESHOLDS[key].good, unit)
            \cup GridAround(psi_CWV_THRESHOLDS[key].poor, unit)

CruxGrid(k) ==
    LET key == IF k \in DOMAIN crux_CWV_THRESHOLDS THEN k ELSE "largest_contentful_paint"
        unit == convert_p75(k, 0)[2]
    IN  GridAround(crux_CWV_THRESHOLDS[key].good, unit)
            \cup GridAround(crux_CWV_THRESHOLDS[key].poor, unit)

(***************************************************************************)
(* One call of get_status, of either script.                               *)
(***************************************************************************)
LabIdle == lighthouse_result = EmptyDict /\ metrics = EmptyDict /\ opportunities = <<>>
FieldIdle == record = EmptyDict /\ parsed = EmptyDict
ClassifyIdle == module = None /\ metric = None /\ value = 0 /\ status = None
NetIdle ==
    /\ request_map = <<>>
    /\ result = EmptyDict
    /\ n_events = 0
    /\ n_entries = 0
    /\ requested = EmptyDict
    /\ last_written = EmptyDict
    /\ since_request = EmptyDict
ReportIdle ==
    /\ data_file = EmptyDict
    /\ data = EmptyDict
    /\ wb = <<>>
    /\ to_build = <<>>
    /\ built = <<>>
    /\ saved = <<>>
    /\ report = EmptyDict
FetchIdle ==
    /\ args = EmptyDict
    /\ responses = EmptyDict
    /\ to_fetch = <<>>
    /\ psi_output = EmptyDict
    /\ calls = <<>>
    /\ psi_exit = EmptyDict
ConvertIdle == displayed = None
SanitizeIdle ==
    /\ cell_value = None
    /\ length_limit = 0
    /\ sanitized = None
CruxIdle ==
    /\ crux_query = EmptyDict
    /\ crux_response = EmptyDict
    /\ crux_result = EmptyDict
DiagIdle == diagnostics = <<>>
ClientIdle ==
    /\ messages = <<>>
    /\ locals = EmptyDict
    /\ client_result = EmptyDict
EngineIdle ==
    /\ agent_result = EmptyDict
    /\ report_file = <<>>
    /\ outcome = EmptyDict
LateIdle ==
    /\ ConvertIdle
    /\ SanitizeIdle
    /\ CruxIdle
    /\ DiagIdle
    /\ ClientIdle
    /\ EngineIdle
MoreIdle == ReportIdle /\ FetchIdle /\ LateIdle

InitClassify ==
    /\ pc = "status_call"
    /\ module \in {"psi", "crux"}
    /\ metric \in IF module = "psi" THEN PsiMetricNames ELSE CruxMetricKeys
    /\ value \in IF module = "psi" THEN PsiGrid(metric) ELSE CruxGrid(metric)
    /\ status = None
    /\ LabIdle
    /\ FieldIdle
    /\ NetIdle
    /\ MoreIdle

PsiGetStatus ==
    /\ pc = "status_call"
    /\ module = "psi"
    /\ status' = psi_get_status(metric, value)
    /\ pc' = "status_return"
    /\ UNCHANGED <<module, metric, value, labVars, fieldVars, netVars, moreVars>>

CruxGetStatus ==
    /\ pc = "status_call"
    /\ module = "crux"
    /\ status' = crux_get_status(metric, value)
    /\ pc' = "status_return"
    /\ UNCHANGED <<module, metric, value, labVars, fieldVars, netVars, moreVars>>

(***************************************************************************)
(* Lab normalizer: parse_lighthouse_metrics, fetch_psi.py                  *)
(***************************************************************************)
\* The audit each reading is taken from, in the order the code looks them up.
MetricAudit ==
    [lcp |-> "largest-contentful-paint",
     inp |-> "experimental-interaction-to-next-paint",
     cls |-> "cumulative-layout-shift",
     fcp |-> "first-contentful-paint",
     ttfb |-> "server-response-time",
     tbt |-> "total-blocking-time",
     speed_index |-> "speed-index"]

\* A reading whose status is that of its displayed value (the display value
\* converted back to provider units), not of its raw value.
ClassifiedReadingOfDisplay(name, audit) ==
    LET raw == Get(audit, "numericValue", 0)
        conv == convert_to_display_unit(name, raw)
    IN  [value |-> conv[1], unit |-> conv[2], raw_ms |-> raw,
         status |-> psi_get_status(name, conv[1] * Precision(conv[2]))]

\* The lcp, inp, fcp and ttfb blocks of parse_lighthouse_metrics.
ClassifiedReading(name, audit) ==
    LET raw == Get(audit, "numericValue", 0)
        conv == convert_to_display_unit(name, raw)
    IN  [value |-> conv[1], unit |-> conv[2], raw_ms |-> raw,
         status |-> psi_get_status(name, raw)]

\* The cls block: rounded in place, not by convert_to_display_unit.
ClsReading(audit) ==
    LET cls_value == Get(audit, "numericValue", 0)
    IN  [value |-> Round(cls_value, Scale \div 1000), unit |-> "",
         raw_ms |-> cls_value, status |-> psi_get_status("cls", cls_value)]

\* A tbt or speed_index reading that is classified like the others.
UnclassifiedReadingWithStatus(name, audit) ==
    LET raw == Get(audit, "numericValue", 0)
        conv == convert_to_display_unit(name, raw)
    IN  [value |-> conv[1], unit |-> conv[2], raw_ms |-> raw,
         status |-> psi_get_status(name, raw)]

\* The tbt and speed_index blocks: no status.
UnclassifiedReading(name, audit) ==
    LET raw == Get(audit, "numericValue", 0)
        conv == convert_to_display_unit(name, raw)
    IN  [value |-> conv[1], unit |-> conv[2], raw_ms |-> raw]

parse_lighthouse_metrics(lhr) ==
    LET audits == Get(lhr, "audits", EmptyDict)
        present == {name \in DOMAIN MetricAudit : MetricAudit[name] \in DOMAIN audits}
    IN  [name \in present |->
            IF name \in {"lcp", "inp", "fcp", "ttfb"}
            THEN ClassifiedReading(name, audits[MetricAudit[name]])
            ELSE IF name = "cls" THEN ClsReading(audits[MetricAudit[name]])
            ELSE UnclassifiedReading(name, audits[MetricAudit[name]])]

(***************************************************************************)
(* parse_lighthouse_metrics on a provider document holding up to           *)
(* MaxAudits of the seven metric audits.  An audit is present without a    *)
(* numericValue, or carries 0, a value just above the good threshold or a  *)
(* value just above the poor threshold of its kind.                        *)
(***************************************************************************)
MaxAudits == 3

AuditVariants == {"no_value", "zero", "above_good", "above_poor"}

LabValue(name, variant) ==
    LET key == IF name \in DOMAIN psi_CWV_THRESHOLDS THEN name ELSE "lcp"
        step == Precision(convert_to_display_unit(name, 0)[2]) \div 5
    IN  IF variant = "zero" THEN 0
        ELSE IF variant = "above_good" THEN psi_CWV_THRESHOLDS[key].good + step
        ELSE psi_CWV_THRESHOLDS[key].poor + 2 * step

MakeAudit(name, variant) ==
    IF variant = "no_value" THEN [title |-> name]
    ELSE [title |-> name, numericValue |-> LabValue(name, variant)]

\* The metric name an audit id is read into.
NameOfAudit(id) == CHOOSE name \in DOMAIN MetricAudit : MetricAudit[name] = id

MetricAuditIds == {MetricAudit[name] : name \in DOMAIN MetricAudit}

LabDocuments ==
    {[audits |-> [id \in S |-> MakeAudit(NameOfAudit(id), f[id])]] :
        <<S, f>> \in UNION {{<<T, g>> : g \in [T -> AuditVariants]} :
                              T \in {U \in SUBSET MetricAuditIds : Cardinality(U) <= MaxAudits}}}
        \cup {EmptyDict}

InitLab ==
    /\ pc = "lab_call"
    /\ lighthouse_result \in LabDocuments
    /\ metrics = EmptyDict
    /\ opportunities = <<>>
    /\ ClassifyIdle
    /\ FieldIdle
    /\ NetIdle
    /\ MoreIdle

ParseLighthouseMetrics ==
    /\ pc = "lab_call"
    /\ metrics' = parse_lighthouse_metrics(lighthouse_result)
    /\ pc' = "lab_return"
    /\ UNCHANGED <<lighthouse_result, opportunities, classifyVars, fieldVars, netVars, moreVars>>

(***************************************************************************)
(* Field normalizer: parse_histogram and parse_crux_metrics, fetch_crux.py *)
(*                                                                         *)
(* A JSON scalar of the provider is [num |-> n], a number, or              *)
(* [str |-> chars], a textual decimal given as its characters.             *)
(***************************************************************************)
DigitChars == <<"0", "1", "2", "3", "4", "5", "6", "7", "8", "9">>

DigitValue(c) == (CHOOSE i \in 1..10 : DigitChars[i] = c) - 1

RECURSIVE IntegerOf(_)
\* The integer a run of digits denotes.
IntegerOf(chars) ==
    IF chars = <<>> THEN 0
    ELSE 10 * IntegerOf(SubSeq(chars, 1, Len(chars) - 1)) + DigitValue(chars[Len(chars)])

RECURSIVE FractionOf(_, _)
\* The fraction a run of digits after the point denotes, in raw units; weight
\* is the value of a 1 in the first position.
FractionOf(chars, weight) ==
    IF chars = <<>> \/ weight = 0 THEN 0
    ELSE DigitValue(Head(chars)) * weight + FractionOf(Tail(chars), weight \div 10)

\* float() of a JSON scalar, in raw units.
Float(x) ==
    IF "num" \in DOMAIN x THEN x.num
    ELSE LET chars == x.str
             dots == {i \in 1..Len(chars) : chars[i] = "."}
             dot == IF dots = {} THEN Len(chars) + 1 ELSE CHOOSE i \in dots : TRUE
         IN  IntegerOf(SubSeq(chars, 1, dot - 1)) * Scale
                 + FractionOf(SubSeq(chars, dot + 1, Len(chars)), Scale \div 10)

\* parse_histogram that pads a short histogram with zeros.
ParseHistogramPadded(histogram) ==
    LET density(i) == IF i <= Len(histogram)
                      THEN Round(Float(Get(histogram[i], "density", [num |-> 0])),
                                 Scale \div 1000)
                      ELSE 0
    IN  IF histogram = <<>> THEN EmptyDict
        ELSE [good |-> density(1), needs_improvement |-> density(2), poor |-> density(3)]

parse_histogram(histogram) ==
    IF histogram = <<>> \/ Len(histogram) < 3 THEN EmptyDict
    ELSE [good |-> Round(Float(Get(histogram[1], "density", [num |-> 0])), Scale \div 1000),
          needs_improvement |->
              Round(Float(Get(histogram[2], "density", [num |-> 0])), Scale \div 1000),
          poor |-> Round(Float(Get(histogram[3], "density", [num |-> 0])), Scale \div 1000)]

\* d[key] = v on a dict.
Put(d, key, v) == (key :> v) @@ d

\* One turn of parse_crux_metrics' loop, for a recognized key.
FieldReading(metric_key_lower, metric_data) ==
    LET percentiles == Get(metric_data, "percentiles", EmptyDict)
        p75_raw == Float(Get(percentiles, "p75", [num |-> 0]))
        conv == convert_p75(metric_key_lower, p75_raw)
    IN  [p75 |-> conv[1], p75_raw |-> p75_raw, unit |-> conv[2],
         status |-> crux_get_status(metric_key_lower, p75_raw),
         distribution |-> parse_histogram(Get(metric_data, "histogram", <<>>))]

RECURSIVE ParseCruxItems(_, _)
\* The loop of parse_crux_metrics over metrics_data.items(), a sequence of
\* <<key, data>> in the dict's order.
ParseCruxItems(items, acc) ==
    IF items = <<>> THEN acc
    ELSE LET metric_key_lower == Lower(Head(items)[1])
         IN  IF metric_key_lower \notin DOMAIN METRIC_DISPLAY_NAMES
             THEN ParseCruxItems(Tail(items), acc)
             ELSE ParseCruxItems(Tail(items),
                     Put(acc, METRIC_DISPLAY_NAMES[metric_key_lower],
                         FieldReading(metric_key_lower, Head(items)[2])))

parse_crux_metrics(rec) == ParseCruxItems(Get(rec, "metrics", <<>>), EmptyDict)

(***************************************************************************)
(* parse_crux_metrics on a provider record of up to                        *)
(* MaxFieldMetrics metrics.                                                *)
(***************************************************************************)
MaxFieldMetrics == 2

RECURSIVE IntegerText(_)
\* The provider's decimal text of a natural number.
IntegerText(n) ==
    IF n < 10 THEN <<DigitChars[n + 1]>>
    ELSE Append(IntegerText(n \div 10), DigitChars[(n % 10) + 1])

\* The provider's decimal text of a raw value: four decimals when it has a
\* fraction.
DecimalText(v) ==
    LET whole == v \div Scale
        frac == v % Scale
    IN  IF frac = 0 THEN IntegerText(whole)
        ELSE IntegerText(whole) \o <<".">>
                \o <<DigitChars[(frac \div 1000) + 1], DigitChars[((frac \div 100) % 10) + 1],
                     DigitChars[((frac \div 10) % 10) + 1], DigitChars[(frac % 10) + 1]>>

FieldKeys == CruxMetricKeys \cup {"LARGEST_CONTENTFUL_PAINT"}

FieldVariants ==
    {"bare"} \cup ({"no_p75", "num_above_good", "str_above_poor"} \X {"two", "three"})

FieldValue(key, p) ==
    LET k == IF Lower(key) \in DOMAIN crux_CWV_THRESHOLDS
             THEN Lower(key) ELSE "largest_contentful_paint"
        step == Precision(convert_p75(Lower(key), 0)[2]) \div 5
    IN  IF p = "num_above_good" THEN [num |-> crux_CWV_THRESHOLDS[k].good + step]
        ELSE [str |-> DecimalText(crux_CWV_THRESHOLDS[k].poor + 2 * step)]

Histogram(h) ==
    LET two == <<[start |-> 0, density |-> [str |-> <<"0", ".", "6", "0", "0", "4">>]],
                 [start |-> 1, density |-> [str |-> <<"0", ".", "2", "9", "9", "6">>]]>>
    IN  IF h = "two" THEN two ELSE Append(two, [start |-> 2, density |-> [num |-> Scale \div 10]])

MakeMetricData(key, variant) ==
    IF variant = "bare" THEN EmptyDict
    ELSE [percentiles |-> IF variant[1] = "no_p75" THEN EmptyDict
                          ELSE [p75 |-> FieldValue(key, variant[1])],
          histogram |-> Histogram(variant[2])]

RECURSIVE FieldItems(_)
\* The sequences of up to n <<key, data>> pairs with distinct keys.
FieldItems(n) ==
    IF n = 0 THEN {<<>>}
    ELSE LET shorter == FieldItems(n - 1)
         IN  shorter \cup
             {Append(items, <<key, MakeMetricData(key, variant)>>) :
                <<items, key, variant>> \in
                    {t \in shorter \X FieldKeys \X FieldVariants :
                        /\ Len(t[1]) = n - 1
                        /\ \A i \in 1..Len(t[1]) : t[1][i][1] # t[2]}}

InitField ==
    /\ pc = "field_call"
    /\ record \in {[metrics |-> items] : items \in FieldItems(MaxFieldMetrics)} \cup {EmptyDict}
    /\ parsed = EmptyDict
    /\ ClassifyIdle
    /\ LabIdle
    /\ NetIdle
    /\ MoreIdle

ParseCruxMetrics ==
    /\ pc = "field_call"
    /\ parsed' = parse_crux_metrics(record)
    /\ pc' = "field_return"
    /\ UNCHANGED <<record, classifyVars, labVars, netVars, moreVars>>

(***************************************************************************)
(* SpecMetrics: one run of the classifier or of a normalizer, on any of    *)
(* the inputs above.                                                       *)
(***************************************************************************)
InitMetrics == InitClassify \/ InitLab \/ InitField

NextMetrics ==
    \/ PsiGetStatus
    \/ CruxGetStatus
    \/ ParseLighthouseMetrics
    \/ ParseCruxMetrics

SpecMetrics == InitMetrics /\ [][NextMetrics]_vars

(***************************************************************************)
(* Claims on the classifier and the normalizers (SpecMetrics)              *)
(***************************************************************************)
\* The published threshold pairs <<good, poor>> by kind, in raw units.
PublishedThresholds ==
    [lcp |-> <<2500 * Scale, 4000 * Scale>>,
     inp |-> <<200 * Scale, 500 * Scale>>,
     cls |-> <<Scale \div 10, Scale \div 4>>,
     fcp |-> <<1800 * Scale, 3000 * Scale>>,
     ttfb |-> <<800 * Scale, 1800 * Scale>>,
     fid |-> <<100 * Scale, 300 * Scale>>]

\* The band the policy gives a raw value of a kind.
Band(kind, v) ==
    IF v <= PublishedThresholds[kind][1] THEN "good"
    ELSE IF v <= PublishedThresholds[kind][2] THEN "needs_improvement"
    ELSE "poor"

BandRank(b) == IF b = "good" THEN 0 ELSE IF b = "needs_improvement" THEN 1 ELSE 2

\* The kinds with a threshold pair: five in the lab script, six in the field script.
LabTabled == {"lcp", "inp", "cls", "fcp", "ttfb"}
FieldTabled == LabTabled \cup {"fid"}

\* The kind of the classifier call in hand, when it has a threshold pair.
CallTabled ==
    \/ module = "psi" /\ Lower(metric) \in LabTabled
    \/ module = "crux" /\ metric \in DOMAIN METRIC_DISPLAY_NAMES

CallKind == IF module = "psi" THEN Lower(metric) ELSE METRIC_DISPLAY_NAMES[metric]

\* C1: for a kind with a threshold pair, get_status returns the band of the
\* policy (good up to the good threshold, needs_improvement up to the poor
\* threshold, poor above), and no larger value of the kind gets a better band.
C1_ClassifyPolicy ==
    (pc = "status_return" /\ CallTabled) =>
        /\ status = Band(CallKind, value)
        /\ \A v2 \in (IF module = "psi" THEN PsiGrid(metric) ELSE CruxGrid(metric)) :
              v2 >= value =>
                 BandRank(IF module = "psi" THEN psi_get_status(metric, v2)
                          ELSE crux_get_status(metric, v2)) >= BandRank(status)

\* A value equal to the poor threshold of LCP has been classified.
C1_Witness ==
    /\ pc = "status_return"
    /\ module = "psi"
    /\ metric = "lcp"
    /\ value = 4000 * Scale
    /\ status = "needs_improvement"

\* The last item of the field record that is read into display name dn.
LastItemFor(dn) ==
    LET items == Get(record, "metrics", <<>>)
        hits == {i \in 1..Len(items) :
                    /\ Lower(items[i][1]) \in DOMAIN METRIC_DISPLAY_NAMES
                    /\ METRIC_DISPLAY_NAMES[Lower(items[i][1])] = dn}
    IN  items[CHOOSE i \in hits : \A j \in hits : j <= i][2]

SuppliesP75(metric_data) ==
    /\ "percentiles" \in DOMAIN metric_data
    /\ "p75" \in DOMAIN metric_data.percentiles

\* C2: the status of every lab reading is the band of the audit's raw
\* numericValue, and the status of every field reading is the band of the
\* provider's raw p75: never the band of the rounded display value.
C2_BandOfRawValue ==
    /\ pc = "lab_return" =>
         \A name \in DOMAIN metrics :
            LET audit == lighthouse_result.audits[MetricAudit[name]]
            IN  ("status" \in DOMAIN metrics[name] /\ "numericValue" \in DOMAIN audit) =>
                    metrics[name].status = Band(name, audit.numericValue)
    /\ pc = "field_return" =>
         \A dn \in DOMAIN parsed :
            SuppliesP75(LastItemFor(dn)) =>
                parsed[dn].status = Band(dn, Float(LastItemFor(dn).percentiles.p75))

\* A raw LCP just above 2500 ms is displayed as 2.5 s and is needs_improvement.
C2_Witness ==
    /\ pc = "lab_return"
    /\ "lcp" \in DOMAIN metrics
    /\ metrics["lcp"].raw_ms > 2500 * Scale
    /\ metrics["lcp"].value = 250
    /\ metrics["lcp"].status = "needs_improvement"

Bands == {"good", "needs_improvement", "poor"}

\* C3 as stated: classifying a value of a kind without a table entry
\* yields no band, and the tbt and speed_index readings carry no status.
C3_NoBandWithoutEntry ==
    /\ (pc = "status_return" /\ ~CallTabled) => status \notin Bands
    /\ pc = "lab_return" =>
         \A name \in DOMAIN metrics \cap {"tbt", "speed_index"} :
            "status" \notin DOMAIN metrics[name]

\* C3 amended: get_status gives a kind without a table entry the band good
\* whatever the value, but no normalizer classifies such a kind: a lab reading
\* carries a status exactly when its kind is one of the five tabled kinds (the
\* tbt and speed_index readings carry none), and every field reading is of a
\* tabled kind.
C3_NoReadingBandWithoutEntry ==
    /\ (pc = "status_return" /\ ~CallTabled) => status = "good"
    /\ pc = "lab_return" =>
         \A name \in DOMAIN metrics :
            ("status" \in DOMAIN metrics[name]) <=> (name \in LabTabled)
    /\ pc = "field_return" => DOMAIN parsed \subseteq FieldTabled

\* A tbt reading above the LCP poor threshold has been produced.
C3_Witness ==
    /\ pc = "lab_return"
    /\ "tbt" \in DOMAIN metrics
    /\ metrics["tbt"].raw_ms > 4000 * Scale

\* C4 as stated: a lab reading is emitted only for an audit that supplies a
\* numericValue, and a field reading only for a metric that supplies a p75.
C4_MissingIsAbsent ==
    /\ pc = "lab_return" =>
         \A name \in DOMAIN metrics :
            "numericValue" \in DOMAIN lighthouse_result.audits[MetricAudit[name]]
    /\ pc = "field_return" =>
         \A dn \in DOMAIN parsed : SuppliesP75(LastItemFor(dn))

(***************************************************************************)
(* Lab normalizer: parse_opportunities, fetch_psi.py                       *)
(*                                                                         *)
(* The audits dict is the sequence of its <<id, audit>> items in the       *)
(* provider's order.  A score is counted in hundredths (0.9 is 90); being  *)
(* a number or null, it is <<n>> or Null.                                  *)
(***************************************************************************)
\* JSON null where a number may stand, and audit.get("score") without a score.
Null == <<>>

\* sorted(seq, key=..., reverse=True) where the sort puts equal keys in
\* reverse order of arrival (an ascending sort read backwards).
SortedReverseUnstable(seq, keys) ==
    LET n == Len(seq)
        rank == [i \in 1..n |-> 1 + Cardinality({j \in 1..n :
                        keys[j] > keys[i] \/ (keys[j] = keys[i] /\ j > i)})]
    IN  [p \in 1..n |-> seq[CHOOSE i \in 1..n : rank[i] = p]]

\* sorted(seq, key=..., reverse=True), keys[i] being the key of seq[i]:
\* Python's sort is stable, with reverse too.
SortedReverse(seq, keys) ==
    LET n == Len(seq)
        rank == [i \in 1..n |-> 1 + Cardinality({j \in 1..n :
                        keys[j] > keys[i] \/ (keys[j] = keys[i] /\ j < i)})] \o <<>>
    IN  [p \in 1..n |-> seq[CHOOSE i \in 1..n : rank[i] = p]]

\* The set comprehension over the performance category's auditRefs.
OpportunityIds(lhr) ==
    LET categories == Get(lhr, "categories", EmptyDict)
        perf_audits == Get(Get(categories, "performance", EmptyDict), "auditRefs", <<>>)
    IN  {perf_audits[i].id : i \in {j \in 1..Len(perf_audits) :
            Get(perf_audits[j], "group", None) = "load-opportunities"}}

\* The two tests of the loop with a passing score of exactly 0.9 let through.
KeepsAuditAbove(audit_id, audit, opportunity_ids) ==
    /\ audit_id \in opportunity_ids
    /\ LET score == Get(audit, "score", Null)
       IN  ~(score = Null \/ score[1] > 90)

\* The two tests of the loop: neither `continue` is taken.
KeepsAudit(audit_id, audit, opportunity_ids) ==
    /\ audit_id \in opportunity_ids
    /\ LET score == Get(audit, "score", Null)
       IN  ~(score = Null \/ score[1] >= 90)

\* The opportunity dict built for a kept audit.
Opportunity(audit_id, audit) ==
    LET details == Get(audit, "details", EmptyDict)
        base == [id |-> audit_id,
                 title |-> Get(audit, "title", ""),
                 description |-> Get(audit, "description", "")]
        withMs == IF "overallSavingsMs" \in DOMAIN details
                  THEN Put(base, "savings_ms", Round(details.overallSavingsMs, Scale))
                  ELSE base
    IN  IF "overallSavingsBytes" \in DOMAIN details
        THEN Put(withMs, "savings_bytes", details.overallSavingsBytes)
        ELSE withMs

RECURSIVE CollectOpportunities(_, _)
\* The loop over audits.items().
CollectOpportunities(items, opportunity_ids) ==
    IF items = <<>> THEN <<>>
    ELSE LET rest == CollectOpportunities(Tail(items), opportunity_ids)
         IN  IF KeepsAudit(Head(items)[1], Head(items)[2], opportunity_ids)
             THEN <<Opportunity(Head(items)[1], Head(items)[2])>> \o rest
             ELSE rest

\* The key of the final sort.
SavingsKey(opps) == [i \in 1..Len(opps) |-> Get(opps[i], "savings_ms", 0)]

parse_opportunities(lhr) ==
    LET found == CollectOpportunities(Get(lhr, "audits", <<>>), OpportunityIds(lhr))
    IN  SortedReverse(found, SavingsKey(found))

(***************************************************************************)
(* SpecOpportunities: parse_opportunities on a provider document of up to  *)
(* MaxOppAudits audits.  An audit is a load opportunity with a failing     *)
(* score and one of six savings, or it is one the code must drop: passing  *)
(* score, null score, no score, another group, or not referenced.          *)
(***************************************************************************)
MaxOppAudits == 3

OppIds == <<"unused-javascript", "render-blocking-resources", "offscreen-images",
            "uses-text-compression", "unminified-css">>

SavingsVariants == {"no_details", "bytes_only", "ms_0_4", "ms_150_4", "ms_150_5", "ms_300"}
DroppedVariants == {"passing", "null_score", "no_score", "other_group", "unreferenced"}
OppVariants == SavingsVariants \cup DroppedVariants

OppDetails(variant) ==
    CASE variant = "bytes_only" -> [overallSavingsBytes |-> 2048]
      [] variant = "ms_0_4" -> [overallSavingsMs |-> (4 * Scale) \div 10]
      [] variant = "ms_150_4" -> [overallSavingsMs |-> 150 * Scale + (4 * Scale) \div 10,
                                  overallSavingsBytes |-> 1024]
      [] variant = "ms_150_5" -> [overallSavingsMs |-> 150 * Scale + Scale \div 2]
      [] OTHER -> [overallSavingsMs |-> 300 * Scale]

OppAudit(id, variant) ==
    LET base == [title |-> id, description |-> "text"]
        scored == IF variant = "no_score" THEN base
                  ELSE Put(base, "score",
                           IF variant = "null_score" THEN Null
                           ELSE IF variant = "passing" THEN <<90>> ELSE <<50>>)
    IN  IF variant = "no_details" THEN scored ELSE Put(scored, "details", OppDetails(variant))

\* The performance category's reference to an audit, if it has one.
OppRef(id, variant) ==
    IF variant = "unreferenced" THEN <<>>
    ELSE IF variant = "other_group" THEN <<[id |-> id, group |-> "diagnostics"]>>
    ELSE <<[id |-> id, group |-> "load-opportunities"]>>

RECURSIVE OppRefs(_)
OppRefs(choice) ==
    IF choice = <<>> THEN <<>>
    ELSE OppRefs(SubSeq(choice, 1, Len(choice) - 1))
            \o OppRef(OppIds[Len(choice)], choice[Len(choice)])

OppDocument(choice, withCategories) ==
    LET audits == [i \in 1..Len(choice) |-> <<OppIds[i], OppAudit(OppIds[i], choice[i])>>]
    IN  IF withCategories
        THEN [audits |-> audits,
              categories |-> [performance |-> [score |-> <<50>>, auditRefs |-> OppRefs(choice)]]]
        ELSE [audits |-> audits]

InitOpportunities ==
    /\ pc = "opp_call"
    /\ \E n \in 0..MaxOppAudits : \E choice \in [1..n -> OppVariants] :
        \E withCategories \in BOOLEAN :
            lighthouse_result = OppDocument(choice, withCategories)
    /\ metrics = EmptyDict
    /\ opportunities = <<>>
    /\ ClassifyIdle
    /\ FieldIdle
    /\ NetIdle
    /\ MoreIdle

ParseOpportunities ==
    /\ pc = "opp_call"
    /\ opportunities' = parse_opportunities(lighthouse_result)
    /\ pc' = "opp_return"
    /\ UNCHANGED <<lighthouse_result, metrics, classifyVars, fieldVars, netVars, moreVars>>

NextOpportunities == ParseOpportunities

SpecOpportunities == InitOpportunities /\ [][NextOpportunities]_vars

(***************************************************************************)
(* Claims on parse_opportunities (SpecOpportunities)                       *)
(***************************************************************************)
\* The place of an audit id in the provider's audits.
ProviderIndex(id) ==
    CHOOSE i \in 1..Len(lighthouse_result.audits) : lighthouse_result.audits[i][1] = id

\* savings_ms, an opportunity without one counting as 0.
SavingsOf(opp) == IF "savings_ms" \in DOMAIN opp THEN opp.savings_ms ELSE 0

\* C5: the opportunities are ordered by savings_ms descending (none counts
\* as 0), and opportunities of equal savings_ms keep the provider's order.
C5_SortedBySavingsStable ==
    pc = "opp_return" =>
        \A i, j \in 1..Len(opportunities) :
            i < j =>
                /\ SavingsOf(opportunities[i]) >= SavingsOf(opportunities[j])
                /\ SavingsOf(opportunities[i]) = SavingsOf(opportunities[j]) =>
                      ProviderIndex(opportunities[i].id) < ProviderIndex(opportunities[j].id)

\* Three opportunities: the last audit has the largest savings and comes
\* first, the other two tie at 150 ms and keep their order.
C5_Witness ==
    /\ pc = "opp_return"
    /\ Len(opportunities) = 3
    /\ ProviderIndex(opportunities[1].id) = 3
    /\ SavingsOf(opportunities[2]) = 150
    /\ SavingsOf(opportunities[3]) = 150
    /\ SavingsOf(opportunities[1]) = 300

\* The audits the performance category references with the group
\* load-opportunities and whose score is present and below 0.9.
ExpectedOpportunityIds ==
    LET audits == lighthouse_result.audits
        refs == IF "categories" \in DOMAIN lighthouse_result
                THEN lighthouse_result.categories.performance.auditRefs ELSE <<>>
        inGroup(id) == \E r \in 1..Len(refs) :
                          /\ refs[r].id = id
                          /\ "group" \in DOMAIN refs[r]
                          /\ refs[r].group = "load-opportunities"
        failing(a) == "score" \in DOMAIN a /\ a.score # Null /\ a.score[1] < 90
    IN  {audits[i][1] : i \in {k \in 1..Len(audits) : inGroup(audits[k][1]) /\ failing(audits[k][2])}}

\* C6: the opportunities are exactly the audits of the load-opportunities
\* group whose score is present and below 0.9, each once.
C6_ExactlyFailingOpportunities ==
    pc = "opp_return" =>
        /\ {opportunities[i].id : i \in 1..Len(opportunities)} = ExpectedOpportunityIds
        /\ Len(opportunities) = Cardinality(ExpectedOpportunityIds)

\* One audit is reported while a passing one, an unscored one and one of
\* another group are dropped.
C6_Witness ==
    /\ pc = "opp_return"
    /\ Len(opportunities) = 1
    /\ Len(lighthouse_result.audits) = 3
    /\ \E i \in 1..3 : /\ "score" \in DOMAIN lighthouse_result.audits[i][2]
                        /\ lighthouse_result.audits[i][2].score = <<90>>
    /\ \E i \in 1..3 : "score" \notin DOMAIN lighthouse_result.audits[i][2]

(***************************************************************************)
(* Network trace aggregator: capture_network, capture_network.py           *)
(*                                                                         *)
(* A URL is a number: distinct numbers are distinct URLs.  request_map is  *)
(* the sequence of the dict's values in the dict's order.  Times are in    *)
(* raw units (1/Scale ms), sizes in bytes.                                 *)
(***************************************************************************)
TopN == 10
WaterfallMax == 100
BlockingStartMs == 500

Min(a, b) == IF a <= b THEN a ELSE b

\* The dataclass RequestData with its defaults.
RequestData(url, resource_type) ==
    [url |-> url, resource_type |-> resource_type, start_time |-> 0, end_time |-> 0,
     duration_ms |-> 0, size_bytes |-> 0, status |-> 0, from_cache |-> FALSE]

type_map ==
    [document |-> "document", script |-> "script", stylesheet |-> "stylesheet",
     image |-> "image", font |-> "font", xhr |-> "xhr", fetch |-> "xhr",
     media |-> "media", websocket |-> "websocket", manifest |-> "other", other |-> "other"]

get_resource_type(resource_type) == Get(type_map, resource_type, "other")

\* url in request_map
HasUrl(map, url) == \E i \in 1..Len(map) : map[i].url = url

\* The place of request_map[url].
IndexOfUrl(map, url) ==
    CHOOSE i \in 1..Len(map) : map[i].url = url /\ \A j \in 1..(i - 1) : map[j].url # url

\* A store that keeps one record per request event instead of one per URL.
DictAppend(map, url, rec) == Append(map, rec)

\* request_map[url] = rec: a key already there keeps its place in the dict.
DictSet(map, url, rec) ==
    IF HasUrl(map, url) THEN [map EXCEPT ![IndexOfUrl(map, url)] = rec]
    ELSE Append(map, rec)

on_request(map, url, resource_type) ==
    DictSet(map, url, RequestData(url, get_resource_type(resource_type)))

\* Whether int() accepts the text: an optional sign, then digits only.
IsIntegerText(chars) ==
    LET digits == IF chars # <<>> /\ Head(chars) \in {"-", "+"} THEN Tail(chars) ELSE chars
    IN  /\ digits # <<>>
        /\ \A i \in 1..Len(digits) : \E d \in 1..10 : DigitChars[d] = digits[i]

\* int() of a text it accepts.
IntOfText(chars) ==
    IF Head(chars) = "-" THEN 0 - IntegerOf(Tail(chars))
    ELSE IF Head(chars) = "+" THEN IntegerOf(Tail(chars))
    ELSE IntegerOf(chars)

\* on_response; headers.get("content-length") is Null when the header is
\* missing, and an empty header is as falsy as a missing one.
on_response(map, req_url, status_code, from_service_worker, headers) ==
    IF ~HasUrl(map, req_url) THEN map
    ELSE LET i == IndexOfUrl(map, req_url)
             content_length == Get(headers, "content-length", Null)
             seen == [map[i] EXCEPT !.status = status_code,
                                    !.from_cache = from_service_worker]
         IN  IF content_length # <<>> /\ IsIntegerText(content_length)
             THEN [map EXCEPT ![i] = [seen EXCEPT !.size_bytes = IntOfText(content_length)]]
             ELSE [map EXCEPT ![i] = seen]

\* One turn of the loop over resource_timing.
\* ApplyEntry that looks at encoded_body_size before transfer_size.
ApplyEntryBodyFirst(map, entry) ==
    IF \A i \in 1..Len(map) : map[i].url # entry.name THEN map
    ELSE LET i == CHOOSE k \in 1..Len(map) : map[k].url = entry.name
             timed == [map[i] EXCEPT !.start_time = entry.start_time,
                                     !.duration_ms = entry.duration]
         IN  IF entry.encoded_body_size > 0
             THEN [map EXCEPT ![i] = [timed EXCEPT !.size_bytes = entry.encoded_body_size]]
             ELSE IF entry.transfer_size > 0
             THEN [map EXCEPT ![i] = [timed EXCEPT !.size_bytes = entry.transfer_size]]
             ELSE [map EXCEPT ![i] = timed]

ApplyEntry(map, entry) ==
    IF ~HasUrl(map, entry.name) THEN map
    ELSE LET i == IndexOfUrl(map, entry.name)
             timed == [map[i] EXCEPT !.start_time = entry.start_time,
                                     !.duration_ms = entry.duration]
         IN  IF entry.transfer_size > 0
             THEN [map EXCEPT ![i] = [timed EXCEPT !.size_bytes = entry.transfer_size]]
             ELSE IF entry.encoded_body_size > 0
             THEN [map EXCEPT ![i] = [timed EXCEPT !.size_bytes = entry.encoded_body_size]]
             ELSE [map EXCEPT ![i] = timed]

\* The bucket update that assigns the bytes instead of adding them.
AddToBucketAssign(by_type, req) ==
    LET rtype == req.resource_type
        have == IF rtype \notin DOMAIN by_type
                THEN Put(by_type, rtype, [count |-> 0, bytes |-> 0]) ELSE by_type
    IN  [have EXCEPT ![rtype] = [count |-> @.count + 1, bytes |-> req.size_bytes]]

\* One turn of the summary loop on by_type.
AddToBucket(by_type, req) ==
    LET rtype == req.resource_type
        have == IF rtype \notin DOMAIN by_type
                THEN Put(by_type, rtype, [count |-> 0, bytes |-> 0]) ELSE by_type
    IN  [have EXCEPT ![rtype] = [count |-> @.count + 1, bytes |-> @.bytes + req.size_bytes]]

RECURSIVE SummaryLoop(_, _)
\* The summary loop: acc is [by_type, total_bytes].  The turns are taken in
\* the list's order: those of its first half, and from what they leave
\* (before) those of its second half.
SummaryLoop(requests_list, acc) ==
    LET n == Len(requests_list)
        half == n \div 2
    IN  IF n = 0 THEN acc
        ELSE IF n = 1
        THEN [by_type |-> AddToBucket(acc.by_type, requests_list[1]),
              total_bytes |-> acc.total_bytes + requests_list[1].size_bytes]
        ELSE CHOOSE after \in
                {SummaryLoop(SubSeq(requests_list, half + 1, n), before) :
                    before \in {SummaryLoop(SubSeq(requests_list, 1, half), acc)}} : TRUE

\* sorted(seq, key=...), keys[i] being the key of seq[i]; stable.
Sorted(seq, keys) ==
    LET n == Len(seq)
        rank == [i \in 1..n |-> 1 + Cardinality({j \in 1..n :
                        keys[j] < keys[i] \/ (keys[j] = keys[i] /\ j < i)})] \o <<>>
    IN  [p \in 1..n |-> seq[CHOOSE i \in 1..n : rank[i] = p]]

SizeKeys(seq) == [i \in 1..Len(seq) |-> seq[i].size_bytes]
StartKeys(seq) == [i \in 1..Len(seq) |-> seq[i].start_time]

LargestEntry(r) ==
    [url |-> r.url, type |-> r.resource_type, size_bytes |-> r.size_bytes,
     size_kb |-> Round(r.size_bytes * 10, 1024), duration_ms |-> Round(r.duration_ms, Scale)]

\* The list comprehension on a list that is cut to ten before it is sorted.
LargestCutFirst(requests_list) ==
    LET cut == SubSeq(requests_list, 1, Min(TopN, Len(requests_list)))
        sorted_by_size == SortedReverse(cut, SizeKeys(cut))
        kept == SelectSeq(sorted_by_size, LAMBDA r : r.size_bytes > 0)
    IN  [i \in 1..Len(kept) |-> LargestEntry(kept[i])]

\* The list comprehension without its condition on the size.
LargestUnfiltered(requests_list) ==
    LET sorted_by_size == SortedReverse(requests_list, SizeKeys(requests_list))
        top == SubSeq(sorted_by_size, 1, Min(TopN, Len(sorted_by_size)))
    IN  [i \in 1..Len(top) |-> LargestEntry(top[i])]

\* sorted_by_size and the list comprehension `largest`: the first ten of the
\* sorted list, and of these the ones with a size.
Largest(requests_list) ==
    LET sorted_by_size == SortedReverse(requests_list, SizeKeys(requests_list))
        top == SubSeq(sorted_by_size, 1, Min(TopN, Len(sorted_by_size)))
        kept == SelectSeq(top, LAMBDA r : r.size_bytes > 0)
    IN  [i \in 1..Len(kept) |-> LargestEntry(kept[i])]

\* Blocking that also lists a record starting at 500 ms.
BlockingInclusive(requests_list) ==
    LET kept == SelectSeq(requests_list,
                    LAMBDA req : /\ req.resource_type \in {"stylesheet", "script"}
                                 /\ req.start_time <= BlockingStartMs * Scale)
    IN  [i \in 1..Len(kept) |->
            [url |-> kept[i].url, type |-> kept[i].resource_type,
             size_bytes |-> kept[i].size_bytes,
             blocks |-> IF kept[i].resource_type = "stylesheet" THEN "render" ELSE "parser"]]

Blocking(requests_list) ==
    LET kept == SelectSeq(requests_list,
                    LAMBDA req : /\ req.resource_type \in {"stylesheet", "script"}
                                 /\ req.start_time < BlockingStartMs * Scale)
    IN  [i \in 1..Len(kept) |->
            [url |-> kept[i].url, type |-> kept[i].resource_type,
             size_bytes |-> kept[i].size_bytes,
             blocks |-> IF kept[i].resource_type = "stylesheet" THEN "render" ELSE "parser"]]

\* The waterfall of a list that is cut to a hundred before it is sorted.
WaterfallCutFirst(requests_list) ==
    LET cut == SubSeq(requests_list, 1, Min(WaterfallMax, Len(requests_list)))
        sorted_by_time == Sorted(cut, StartKeys(cut))
    IN  [i \in 1..Len(sorted_by_time) |->
            [url |-> sorted_by_time[i].url, type |-> sorted_by_time[i].resource_type,
             start_time |-> Round(sorted_by_time[i].start_time, Scale),
             duration_ms |-> Round(sorted_by_time[i].duration_ms, Scale),
             size_bytes |-> sorted_by_time[i].size_bytes,
             status |-> sorted_by_time[i].status]]

Waterfall(requests_list) ==
    LET sorted == Sorted(requests_list, StartKeys(requests_list))
        sorted_by_time == SubSeq(sorted, 1, Min(WaterfallMax, Len(sorted)))
    IN  [i \in 1..Len(sorted_by_time) |->
            [url |-> sorted_by_time[i].url, type |-> sorted_by_time[i].resource_type,
             start_time |-> Round(sorted_by_time[i].start_time, Scale),
             duration_ms |-> Round(sorted_by_time[i].duration_ms, Scale),
             size_bytes |-> sorted_by_time[i].size_bytes,
             status |-> sorted_by_time[i].status]]

\* The dict capture_network returns when the page loaded; the timing block,
\* which copies the browser's navigation timing, is left out.
BuildResult(requests_list) ==
    LET acc == SummaryLoop(requests_list, [by_type |-> EmptyDict, total_bytes |-> 0])
    IN  [success |-> TRUE,
         summary |-> [total_requests |-> Len(requests_list),
                      total_transfer_bytes |-> acc.total_bytes,
                      total_transfer_mb |-> Round(acc.total_bytes * 100, 1024 * 1024),
                      by_type |-> acc.by_type],
         largest_resources |-> Largest(requests_list),
         blocking_resources |-> Blocking(requests_list),
         waterfall |-> Waterfall(requests_list)]

(***************************************************************************)
(* Spec: one capture_network run.  While the page loads, request and       *)
(* response events arrive in any order for the URLs of Urls (a response    *)
(* may name a URL no request event was seen for); when the page has        *)
(* loaded, the resource-timing entries are applied in their order and the  *)
(* summary is built, with no event in between; or the navigation fails.    *)
(***************************************************************************)
MaxEvents == 4
MaxEntries == 2

Urls == {1, 2}
EntryNames == Urls \cup {3}
RawTypes == {"stylesheet", "fetch", "ping"}
StatusCodes == {200, 404}
HeaderSets ==
    {EmptyDict, [h \in {"content-length"} |-> <<"a">>], [h \in {"content-length"} |-> <<"7">>]}
ResourceTimings ==
    {[name |-> n, start_time |-> st, duration |-> 50 * Scale + Scale \div 2,
      transfer_size |-> sz[1], encoded_body_size |-> sz[2]] :
        n \in EntryNames,
        <<st, sz>> \in {<<600 * Scale, <<0, 0>>>>,
                         <<120 * Scale + (4 * Scale) \div 10, <<0, 4>>>>,
                         <<600 * Scale, <<9, 4>>>>}}

\* The fields an event may supply, as they are when a URL is first requested.
NothingWritten ==
    [status |-> 0, from_cache |-> FALSE, size_bytes |-> 0, start_time |-> 0, duration_ms |-> 0]

\* What has arrived for a URL when its request event is seen: no integer
\* content-length and no timing entry.
NothingArrived == [content_length |-> Null, timing |-> Null]

Init ==
    /\ pc = "load"
    /\ request_map = <<>>
    /\ result = EmptyDict
    /\ n_events = 0
    /\ n_entries = 0
    /\ requested = EmptyDict
    /\ last_written = EmptyDict
    /\ since_request = EmptyDict
    /\ ClassifyIdle
    /\ LabIdle
    /\ FieldIdle
    /\ MoreIdle

OnRequest ==
    /\ pc = "load"
    /\ n_events < MaxEvents
    /\ \E url \in Urls, resource_type \in RawTypes :
        /\ request_map' = on_request(request_map, url, resource_type)
        /\ requested' = Put(requested, url, Get(requested, url, 0) + 1)
        /\ last_written' = IF url \in DOMAIN last_written THEN last_written
                           ELSE Put(last_written, url, NothingWritten)
        /\ since_request' = Put(since_request, url, NothingArrived)
    /\ n_events' = n_events + 1
    /\ UNCHANGED <<pc, result, n_entries, classifyVars, labVars, fieldVars, moreVars>>

OnResponse ==
    /\ pc = "load"
    /\ n_events < MaxEvents
    /\ \E url \in Urls, status_code \in StatusCodes, from_service_worker \in BOOLEAN,
          headers \in HeaderSets :
        /\ request_map' =
              on_response(request_map, url, status_code, from_service_worker, headers)
        /\ last_written' =
              IF url \notin DOMAIN last_written THEN last_written
              ELSE LET text == Get(headers, "content-length", Null)
                   IN  [last_written EXCEPT
                          ![url].status = status_code,
                          ![url].from_cache = from_service_worker,
                          ![url].size_bytes =
                              IF text # <<>> /\ IsIntegerText(text) THEN IntOfText(text) ELSE @]
        /\ since_request' =
              IF url \notin DOMAIN since_request THEN since_request
              ELSE LET text == Get(headers, "content-length", Null)
                   IN  [since_request EXCEPT
                          ![url].content_length =
                              IF text # <<>> /\ IsIntegerText(text)
                              THEN <<IntOfText(text)>> ELSE @]
    /\ n_events' = n_events + 1
    /\ UNCHANGED <<pc, result, n_entries, requested, classifyVars, labVars, fieldVars, moreVars>>

\* page.goto and the two page.evaluate calls have returned.
PageLoaded ==
    /\ pc = "load"
    /\ pc' = "timing"
    /\ UNCHANGED <<netVars, classifyVars, labVars, fieldVars, moreVars>>

\* One turn of the loop over resource_timing.
ApplyTiming ==
    /\ pc = "timing"
    /\ n_entries < MaxEntries
    /\ \E entry \in ResourceTimings :
        /\ request_map' = ApplyEntry(request_map, entry)
        /\ last_written' =
              IF entry.name \notin DOMAIN last_written THEN last_written
              ELSE [last_written EXCEPT
                      ![entry.name].start_time = entry.start_time,
                      ![entry.name].duration_ms = entry.duration,
                      ![entry.name].size_bytes =
                          IF entry.transfer_size > 0 THEN entry.transfer_size
                          ELSE IF entry.encoded_body_size > 0 THEN entry.encoded_body_size
                          ELSE @]
        /\ since_request' =
              IF entry.name \notin DOMAIN since_request THEN since_request
              ELSE [since_request EXCEPT ![entry.name].timing = Append(@, entry)]
    /\ n_entries' = n_entries + 1
    /\ UNCHANGED <<pc, result, n_events, requested, classifyVars, labVars, fieldVars, moreVars>>

\* The rest of the try block, from requests_list to the return.
BuildSummary ==
    /\ pc = "timing"
    /\ result' = BuildResult(request_map)
    /\ pc' = "done"
    /\ UNCHANGED <<request_map, n_events, n_entries, requested, last_written,
                   since_request, classifyVars, labVars, fieldVars, moreVars>>

\* page.goto raises: the except branch.
NavigationFails ==
    /\ pc = "load"
    /\ result' = [success |-> FALSE, error |-> "Navigation timeout"]
    /\ pc' = "done"
    /\ UNCHANGED <<request_map, n_events, n_entries, requested, last_written,
                   since_request, classifyVars, labVars, fieldVars, moreVars>>

Next ==
    \/ OnRequest
    \/ OnResponse
    \/ PageLoaded
    \/ ApplyTiming
    \/ BuildSummary
    \/ NavigationFails

Spec == Init /\ [][Next]_vars

(***************************************************************************)
(* SpecSummary: the summary built from a request_map of up to MaxRecords   *)
(* records, one per URL.  All records are of one kind but for up to two of *)
(* them, each kind being what the events of one URL leave.                 *)
(***************************************************************************)
MaxRecords == 12

RecordKinds == {"pending", "script", "stylesheet", "image"}

MakeRecord(url, kind) ==
    CASE kind = "pending" ->
            [RequestData(url, "image") EXCEPT !.start_time = 600 * Scale]
      [] kind = "script" ->
            [RequestData(url, "script") EXCEPT
                !.size_bytes = 5, !.status = 200,
                !.start_time = 120 * Scale + (4 * Scale) \div 10,
                !.duration_ms = 50 * Scale + Scale \div 2]
      [] kind = "stylesheet" ->
            [RequestData(url, "stylesheet") EXCEPT
                !.size_bytes = 5, !.status = 200, !.start_time = 600 * Scale]
      [] OTHER ->
            [RequestData(url, "image") EXCEPT
                !.size_bytes = 9, !.status = 404,
                !.start_time = 120 * Scale + (4 * Scale) \div 10]

RecordLists ==
    UNION {UNION {{[i \in 1..n |-> MakeRecord(i, IF i \in D THEN dev[i] ELSE base)] :
                        dev \in [D -> RecordKinds], base \in RecordKinds} :
                    D \in {S \in SUBSET (1..n) : Cardinality(S) <= 2}} :
            n \in 0..MaxRecords}

InitSummary ==
    /\ pc = "timing"
    /\ request_map \in RecordLists
    /\ result = EmptyDict
    /\ n_events = 0
    /\ n_entries = 0
    /\ requested = [i \in 1..Len(request_map) |-> 1]
    /\ last_written = EmptyDict
    /\ since_request = EmptyDict
    /\ ClassifyIdle
    /\ LabIdle
    /\ FieldIdle
    /\ MoreIdle

NextSummary == BuildSummary

SpecSummary == InitSummary /\ [][NextSummary]_vars

(***************************************************************************)
(* SpecWaterfall: the summary built from a request_map of about            *)
(* WaterfallMax records, one per URL, from one short of the cap to MaxLong.*)
(* Record i starts at (i * step) % StartCycle ms, so that for most steps   *)
(* the list is not in time order and late records stand before early ones. *)
(***************************************************************************)
MaxLong == 102
MaxStep == 15
StartCycle == 103

LongRecord(url, step) ==
    [RequestData(url, IF url % 2 = 0 THEN "script" ELSE "image") EXCEPT
        !.start_time = ((url * step) % StartCycle) * Scale,
        !.duration_ms = 50 * Scale + Scale \div 2,
        !.size_bytes = url % 3,
        !.status = 200]

LongLists ==
    {[i \in 1..n |-> LongRecord(i, step)] :
        n \in (WaterfallMax - 1)..MaxLong, step \in 0..MaxStep}

InitWaterfall ==
    /\ pc = "timing"
    /\ request_map \in LongLists
    /\ result = EmptyDict
    /\ n_events = 0
    /\ n_entries = 0
    /\ requested = [i \in 1..Len(request_map) |-> 1]
    /\ last_written = EmptyDict
    /\ since_request = EmptyDict
    /\ ClassifyIdle
    /\ LabIdle
    /\ FieldIdle
    /\ MoreIdle

NextWaterfall == BuildSummary

SpecWaterfall == InitWaterfall /\ [][NextWaterfall]_vars

(***************************************************************************)
(* Claims on the network trace aggregator (Spec, SpecSummary)              *)
(***************************************************************************)
RECURSIVE SumOver(_, _)
\* The sum of f over the set S.
SumOver(f, S) ==
    IF S = {} THEN 0
    ELSE LET x == CHOOSE y \in S : TRUE
         IN  f[x] + SumOver(f, S \ {x})

Summarized == pc = "done" /\ result.success

\* The records request_map holds for a URL.
RecordsOf(url) == {i \in 1..Len(request_map) : request_map[i].url = url}

\* C7: the summary holds one entry per distinct requested URL:
\* total_requests is the number of distinct URLs requested, the counts of
\* by_type add up to it, and each URL's bytes are in the total once.
C7_OneEntryPerUrl ==
    Summarized =>
        /\ result.summary.total_requests = Cardinality(DOMAIN requested)
        /\ \A url \in DOMAIN requested : Cardinality(RecordsOf(url)) = 1
        /\ SumOver([t \in DOMAIN result.summary.by_type |-> result.summary.by_type[t].count],
                   DOMAIN result.summary.by_type) = Cardinality(DOMAIN requested)
        /\ result.summary.total_transfer_bytes =
              SumOver([url \in DOMAIN requested |->
                          request_map[CHOOSE i \in RecordsOf(url) : TRUE].size_bytes],
                      DOMAIN requested)

\* A URL was requested twice and answered with a size, and is counted once.
C7_Witness ==
    /\ Summarized
    /\ \E url \in DOMAIN requested : requested[url] = 2
    /\ result.summary.total_requests = 1
    /\ result.summary.total_transfer_bytes > 0

\* C8 as stated: every field of a URL's record holds the value of the latest
\* event that supplied it; a request event for a URL already seen supplies
\* none of status, from_cache, size, start time and duration.
C8_LastWritePerField ==
    \A i \in 1..Len(request_map) :
        LET r == request_map[i]
            w == last_written[r.url]
        IN  /\ r.status = w.status
            /\ r.from_cache = w.from_cache
            /\ r.size_bytes = w.size_bytes
            /\ r.start_time = w.start_time
            /\ r.duration_ms = w.duration_ms

\* C9: total_transfer_bytes is the sum of the bytes of the by_type buckets
\* and total_requests is the sum of their counts.
C9_TotalsAreBucketSums ==
    Summarized =>
        LET by_type == result.summary.by_type
        IN  /\ result.summary.total_transfer_bytes =
                  SumOver([t \in DOMAIN by_type |-> by_type[t].bytes], DOMAIN by_type)
            /\ result.summary.total_requests =
                  SumOver([t \in DOMAIN by_type |-> by_type[t].count], DOMAIN by_type)

\* Three buckets, one of them with several records that have a size.
C9_Witness ==
    /\ Summarized
    /\ Cardinality(DOMAIN result.summary.by_type) = 3
    /\ result.summary.by_type["image"].count > 2
    /\ result.summary.by_type["image"].bytes > 9

\* C10: largest_resources is the first 10 of the records with a size, sorted
\* by size descending (zero excluded first, then cut); so it has at most 10
\* entries, each with a size, in non-increasing order of size.
C10_LargestInSpecOrder ==
    Summarized =>
        LET largest == result.largest_resources
            sized == SelectSeq(request_map, LAMBDA r : r.size_bytes > 0)
            sorted == SortedReverse(sized, SizeKeys(sized))
            expected == SubSeq(sorted, 1, Min(10, Len(sorted)))
        IN  /\ Len(largest) = Len(expected)
            /\ \A i \in 1..Len(largest) :
                  /\ largest[i].url = expected[i].url
                  /\ largest[i].size_bytes = expected[i].size_bytes
            /\ Len(largest) <= 10
            /\ \A i \in 1..Len(largest) : largest[i].size_bytes > 0
            /\ \A i, j \in 1..Len(largest) :
                  i < j => largest[i].size_bytes >= largest[j].size_bytes

\* Twelve records, the first without a size and the last the only one of
\* size 9: ten are listed, the last record first.
C10_Witness ==
    /\ Summarized
    /\ Len(request_map) = 12
    /\ request_map[1].size_bytes = 0
    /\ request_map[12].size_bytes = 9
    /\ Len(result.largest_resources) = 10
    /\ result.largest_resources[1].url = 12
    /\ result.largest_resources[2].size_bytes = 5

\* The entries of largest_resources that list the record r.
ListedAsLargest(r) ==
    {k \in 1..Len(result.largest_resources) : result.largest_resources[k].url = r.url}

\* The records for which no resource-timing entry has arrived.
Untimed ==
    {i \in 1..Len(request_map) :
        /\ request_map[i].url \in DOMAIN since_request
        /\ since_request[request_map[i].url].timing = Null}

\* C11 as stated: a record for which no timing entry arrives has
\* size_bytes = 0 in the summary and is never listed in largest_resources.
C11_UntimedKeepsZero ==
    Summarized =>
        \A i \in Untimed :
            /\ request_map[i].size_bytes = 0
            /\ ListedAsLargest(request_map[i]) = {}

\* C11, amended: a record for which no timing entry arrives keeps the size
\* its response's integer content-length gave since its last request event,
\* and 0 when there was none; it is counted in total_requests and in its
\* type's count; and when its size is 0 it is not listed in
\* largest_resources.
C11_UntimedKeepsDeclaredSize ==
    Summarized =>
        /\ result.summary.total_requests = Len(request_map)
        /\ \A i \in Untimed :
              LET r == request_map[i]
                  declared == since_request[r.url].content_length
              IN  /\ r.size_bytes = IF declared = Null THEN 0 ELSE declared[1]
                  /\ r.resource_type \in DOMAIN result.summary.by_type
                  /\ result.summary.by_type[r.resource_type].count =
                        Cardinality({j \in 1..Len(request_map) :
                                        request_map[j].resource_type = r.resource_type})
                  /\ r.size_bytes = 0 => ListedAsLargest(r) = {}

\* Two records without a timing entry: one without a size, counted and not
\* listed; the other with the size of its content-length, and listed.
C11_Witness ==
    /\ Summarized
    /\ result.summary.total_requests = 2
    /\ \E i, j \in Untimed :
          /\ request_map[i].size_bytes = 0
          /\ ListedAsLargest(request_map[i]) = {}
          /\ request_map[j].size_bytes = 7
          /\ ListedAsLargest(request_map[j]) # {}

\* C12: the waterfall lists min(100, n) records in non-decreasing order of
\* start time, each record at most once, and every record left out starts
\* no earlier than every record listed.
C12_WaterfallEarliestFirst ==
    Summarized =>
        LET waterfall == result.waterfall
            n == Len(request_map)
            listed == {waterfall[k].url : k \in 1..Len(waterfall)}
        IN  /\ Len(waterfall) = Min(100, n)
            /\ \A k \in 1..(Len(waterfall) - 1) :
                  waterfall[k].start_time <= waterfall[k + 1].start_time
            /\ Cardinality(listed) = Len(waterfall)
            /\ \A i \in 1..n : request_map[i].url \in listed =>
                  \E k \in 1..Len(waterfall) :
                      /\ waterfall[k].url = request_map[i].url
                      /\ waterfall[k].start_time = Round(request_map[i].start_time, Scale)
            /\ listed \subseteq {request_map[i].url : i \in 1..n}
            /\ \A i, j \in 1..n :
                  (request_map[i].url \notin listed /\ request_map[j].url \in listed)
                      => request_map[i].start_time >= request_map[j].start_time

\* More than a hundred records, not in time order: a hundred are listed, a
\* record past the hundredth place is among them and an earlier one is not.
C12_Witness ==
    /\ Summarized
    /\ Len(request_map) > 100
    /\ Len(result.waterfall) = 100
    /\ \E k \in 1..100 : result.waterfall[k].url = 101
    /\ \E i \in 1..100 : \A k \in 1..100 : result.waterfall[k].url # i

(***************************************************************************)
(* Report table builder: generate_excel.py                                 *)
(*                                                                         *)
(* A collected-data document is the JSON main loads: dicts are functions   *)
(* on their keys, lists are sequences, and a strategies dict, whose order  *)
(* the sheets follow, is the sequence of its <<name, value>> items.  A     *)
(* number that is formatted into text is PyInt(n) or PyFloat(count,        *)
(* places), the float count / 10^places; a JSON null in its place is Null. *)
(* A number that is only copied to a cell is a plain number.  A cell is    *)
(* Text(s) or Number(n).                                                   *)
(***************************************************************************)
DefaultMaxLength == 32767
DescriptionMax == 200
LargestNameMax == 30

Text(s) == [text |-> s]
Number(n) == [num |-> n]
PyInt(n) == [int |-> n]
PyFloat(count, places) == [float |-> count, places |-> places]

RECURSIVE Pow10(_)
Pow10(p) == IF p = 0 THEN 1 ELSE 10 * Pow10(p - 1)

RECURSIVE FractionText(_, _)
\* The decimals of frac / 10^p, without trailing zeros.
FractionText(frac, p) ==
    IF frac = 0 THEN ""
    ELSE ToString(frac \div Pow10(p - 1)) \o FractionText(frac % Pow10(p - 1), p - 1)

\* str() of a number, as an f-string formats it: 250 hundredths is "2.5",
\* 200 units as a float is "200.0", the int 200 is "200".
Str(v) ==
    IF "int" \in DOMAIN v THEN ToString(v.int)
    ELSE LET decimals == FractionText(v.float % Pow10(v.places), v.places)
         IN  ToString(v.float \div Pow10(v.places)) \o "."
                \o (IF decimals = "" THEN "0" ELSE decimals)

\* The characters of the regular expression's class that a string of this
\* model can hold: the form feed, U+000C.
IllegalCharacters == {"\f"}

RECURSIVE RemoveIllegal(_)
\* re.sub(r'[\x00-\x08\x0B-\x0C\x0E-\x1F]', '', content)
RemoveIllegal(content) ==
    IF Len(content) = 0 THEN ""
    ELSE IF Len(content) = 1 THEN (IF content \in IllegalCharacters THEN "" ELSE content)
    ELSE RemoveIllegal(SubSeq(content, 1, Len(content) \div 2))
            \o RemoveIllegal(SubSeq(content, (Len(content) \div 2) + 1, Len(content)))

\* content[:stop]
SliceTo(content, stop) ==
    IF stop >= 0 THEN SubSeq(content, 1, Min(stop, Len(content)))
    ELSE SubSeq(content, 1, IF Len(content) + stop > 0 THEN Len(content) + stop ELSE 0)

\* content.rfind(ch): the 0-based place of the last ch, or -1.
RFind(content, ch) ==
    LET places == {i \in 1..Len(content) : SubSeq(content, i, i) = ch}
    IN  IF places = {} THEN -1
        ELSE (CHOOSE i \in places : \A j \in places : j <= i) - 1

\* sanitize_for_excel on None or a string.
sanitize_for_excel(text, max_length) ==
    IF text = None THEN ""
    ELSE LET content == RemoveIllegal(text)
         IN  IF Len(content) > max_length
             THEN LET cut == SliceTo(content, max_length - 20)
                      last_space == RFind(cut, " ")
                  IN  IF 10 * last_space > 8 * max_length
                      THEN SliceTo(cut, last_space) \o "... [truncated]"
                      ELSE cut \o "... [truncated]"
             ELSE content

\* strategies.get(name, {}) on the items of a dict.
ItemsGet(items, name, default) ==
    IF \E i \in 1..Len(items) : items[i][1] = name
    THEN items[CHOOSE i \in 1..Len(items) : items[i][1] = name][2]
    ELSE default

\* str.capitalize() on the strategy names.
Capitalize(s) ==
    LET upper == [m |-> "M", d |-> "D", t |-> "T"]
        first == SubSeq(s, 1, 1)
    IN  IF Len(s) = 0 THEN ""
        ELSE (IF first \in DOMAIN upper THEN upper[first] ELSE first) \o SubSeq(s, 2, Len(s))

_get_status_text(reading) ==
    LET status_ == Get(reading, "status", "")
    IN  IF status_ = "good" THEN "Good"
        ELSE IF status_ = "needs_improvement" THEN "Needs Improvement"
        ELSE IF status_ = "poor" THEN "Poor"
        ELSE ""

_format_metric(reading) ==
    IF DOMAIN reading = {} THEN ""
    ELSE IF "value" \notin DOMAIN reading THEN ""
    ELSE Str(reading.value) \o Get(reading, "unit", "")

\* _format_field_metric without the answer for a value that is None.
FormatFieldMetricBlank(field, key, unit) ==
    IF DOMAIN field = {} \/ key \notin DOMAIN field THEN "N/A"
    ELSE IF field[key] = Null THEN ""
    ELSE Str(field[key]) \o unit

_format_field_metric(field, key, unit) ==
    IF DOMAIN field = {} \/ key \notin DOMAIN field THEN "N/A"
    ELSE IF field[key] = Null THEN "N/A"
    ELSE Str(field[key]) \o unit

\* x.get("performance_score", "") as a cell.
ScoreCell(x) ==
    IF "performance_score" \in DOMAIN x THEN Number(x.performance_score) ELSE Text("")

RECURSIVE Flatten(_)
\* The rows of the turns of a loop, one after the other.
Flatten(lists) ==
    IF lists = <<>> THEN <<>> ELSE Head(lists) \o Flatten(Tail(lists))

Sheet(title, headers, rows) ==
    [title |-> title, headers |-> headers, rows |-> rows, freeze_panes |-> "A2"]

\* wb.create_sheet(title, index): list.insert, which appends when the index
\* is past the end.
create_sheet(workbook, sheet, index) ==
    LET at == Min(index, Len(workbook))
    IN  SubSeq(workbook, 1, at) \o <<sheet>> \o SubSeq(workbook, at + 1, Len(workbook))

\* The Top Issue of a row that takes the last mobile opportunity.
TopIssueLast(mobile_opps) ==
    IF mobile_opps # <<>> THEN Get(mobile_opps[Len(mobile_opps)], "title", "") ELSE ""

\* top_issue of create_summary_sheet.
TopIssue(mobile_opps) ==
    IF mobile_opps # <<>> THEN Get(mobile_opps[1], "title", "") ELSE ""

\* One turn of the loop of create_summary_sheet.
SummaryRow(psi) ==
    LET url == Get(psi, "url", "")
        strategies == Get(psi, "strategies", <<>>)
        mobile == ItemsGet(strategies, "mobile", EmptyDict)
        desktop == ItemsGet(strategies, "desktop", EmptyDict)
        mobile_cwv == Get(mobile, "core_web_vitals", EmptyDict)
        mobile_opps == Get(mobile, "opportunities", <<>>)
    IN  <<Text(sanitize_for_excel(url, DefaultMaxLength)),
          ScoreCell(mobile),
          ScoreCell(desktop),
          Text(_get_status_text(Get(mobile_cwv, "lcp", EmptyDict))),
          Text(_get_status_text(Get(mobile_cwv, "inp", EmptyDict))),
          Text(_get_status_text(Get(mobile_cwv, "cls", EmptyDict))),
          Text(sanitize_for_excel(TopIssue(mobile_opps), DefaultMaxLength))>>

create_summary_sheet(workbook, d) ==
    LET psi_results == Get(d, "psi_results", <<>>)
        headers == <<"URL", "Mobile Score", "Desktop Score", "LCP Status", "INP Status",
                     "CLS Status", "Top Issue">>
        rows == [i \in 1..Len(psi_results) |-> SummaryRow(psi_results[i])]
    IN  create_sheet(workbook, Sheet("Summary", headers, rows), 0)

\* One turn of the inner loop of create_core_web_vitals_sheet.
CoreWebVitalsRow(url, strategy_name, strategy_data) ==
    LET cwv == Get(strategy_data, "core_web_vitals", EmptyDict)
        field_metrics == Get(strategy_data, "field_metrics", EmptyDict)
        field == IF field_metrics = Null THEN EmptyDict ELSE field_metrics
    IN  <<Text(sanitize_for_excel(url, DefaultMaxLength)),
          Text(Capitalize(strategy_name)),
          ScoreCell(strategy_data),
          Text(_format_metric(Get(cwv, "lcp", EmptyDict))),
          Text(_format_field_metric(field, "lcp_p75", "s")),
          Text(_format_metric(Get(cwv, "inp", EmptyDict))),
          Text(_format_field_metric(field, "inp_p75", "ms")),
          Text(_format_metric(Get(cwv, "cls", EmptyDict))),
          Text(_format_field_metric(field, "cls_p75", "")),
          Text(_format_metric(Get(cwv, "fcp", EmptyDict))),
          Text(_format_metric(Get(cwv, "ttfb", EmptyDict))),
          Text(_format_metric(Get(cwv, "tbt", EmptyDict)))>>

create_core_web_vitals_sheet(workbook, d) ==
    LET psi_results == Get(d, "psi_results", <<>>)
        headers == <<"URL", "Strategy", "Score", "LCP Lab", "LCP Field", "INP Lab",
                     "INP Field", "CLS Lab", "CLS Field", "FCP", "TTFB", "TBT">>
        rows == Flatten([i \in 1..Len(psi_results) |->
                    LET url == Get(psi_results[i], "url", "")
                        strategies == Get(psi_results[i], "strategies", <<>>)
                    IN  [k \in 1..Len(strategies) |->
                            CoreWebVitalsRow(url, strategies[k][1], strategies[k][2])]])
    IN  create_sheet(workbook, Sheet("Core Web Vitals", headers, rows), 1)

\* url.split('/')[-1]
LastSegment(url) ==
    LET slash == RFind(url, "/")
    IN  SubSeq(url, slash + 2, Len(url))

\* a.get(key) or b.get(key, default) on numbers.
NumberOr(a, b, key, default) ==
    IF key \in DOMAIN a /\ a[key] # 0 THEN a[key] ELSE Get(b, key, default)

\* One turn of the loop of create_network_analysis_sheet.
NetworkRow(network) ==
    LET url == Get(network, "url", "")
        summary == Get(network, "summary", EmptyDict)
        flat == Get(network, "by_type", EmptyDict)
        by_type == IF DOMAIN flat # {} THEN flat ELSE Get(summary, "by_type", EmptyDict)
        total_requests == NumberOr(network, summary, "total_requests", 0)
        total_bytes == NumberOr(network, summary, "total_transfer_bytes", 0)
        largest == Get(network, "largest_resources", <<>>)
        scripts == Get(by_type, "script", EmptyDict)
        images == Get(by_type, "image", EmptyDict)
        css == Get(by_type, "stylesheet", EmptyDict)
        fonts == Get(by_type, "font", EmptyDict)
        largest_name ==
            IF largest # <<>>
            THEN SliceTo(LastSegment(Get(largest[1], "url", "")), LargestNameMax)
                    \o " (" \o ToString(Round(Get(largest[1], "size_bytes", 0), 1024)) \o "KB)"
            ELSE ""
    IN  <<Text(sanitize_for_excel(url, DefaultMaxLength)),
          Number(total_requests),
          Number(Round(total_bytes * 100, 1024 * 1024)),
          Number(Get(scripts, "count", 0)), Number(Round(Get(scripts, "bytes", 0), 1024)),
          Number(Get(images, "count", 0)), Number(Round(Get(images, "bytes", 0), 1024)),
          Number(Get(css, "count", 0)), Number(Round(Get(css, "bytes", 0), 1024)),
          Number(Get(fonts, "count", 0)), Number(Round(Get(fonts, "bytes", 0), 1024)),
          Text(sanitize_for_excel(largest_name, DefaultMaxLength))>>

create_network_analysis_sheet(workbook, d) ==
    LET network_results == Get(d, "network_results", <<>>)
        headers == <<"URL", "Total Requests", "Transfer (MB)", "Scripts (count)",
                     "Scripts (KB)", "Images (count)", "Images (KB)", "CSS (count)",
                     "CSS (KB)", "Fonts (count)", "Fonts (KB)", "Largest Resource">>
        rows == [i \in 1..Len(network_results) |-> NetworkRow(network_results[i])]
    IN  create_sheet(workbook, Sheet("Network Analysis", headers, rows), 2)

\* One turn of the innermost loop of create_opportunities_sheet.
\* A row whose description is cut after DescriptionMax characters, the
\* ellipsis coming on top.
OpportunityRowCutAtMax(url, strategy_name, opp) ==
    LET savings_bytes == Get(opp, "savings_bytes", 0)
        desc == Get(opp, "description", "")
    IN  <<Text(sanitize_for_excel(url, DefaultMaxLength)),
          Text(Capitalize(strategy_name)),
          Text(sanitize_for_excel(Get(opp, "title", ""), DefaultMaxLength)),
          IF "savings_ms" \in DOMAIN opp THEN Number(opp.savings_ms) ELSE Text(""),
          IF savings_bytes # 0 THEN Number(Round(savings_bytes * 10, 1024)) ELSE Text(""),
          Text(sanitize_for_excel(
                IF Len(desc) > DescriptionMax
                THEN SliceTo(desc, DescriptionMax) \o "..." ELSE desc,
                DefaultMaxLength))>>

\* One turn of the innermost loop of create_opportunities_sheet.
OpportunityRow(url, strategy_name, opp) ==
    LET savings_bytes == Get(opp, "savings_bytes", 0)
        desc == Get(opp, "description", "")
    IN  <<Text(sanitize_for_excel(url, DefaultMaxLength)),
          Text(Capitalize(strategy_name)),
          Text(sanitize_for_excel(Get(opp, "title", ""), DefaultMaxLength)),
          IF "savings_ms" \in DOMAIN opp THEN Number(opp.savings_ms) ELSE Text(""),
          IF savings_bytes # 0 THEN Number(Round(savings_bytes * 10, 1024)) ELSE Text(""),
          Text(sanitize_for_excel(
                IF Len(desc) > DescriptionMax
                THEN SliceTo(desc, DescriptionMax - 3) \o "..." ELSE desc,
                DefaultMaxLength))>>

\* The rows of one strategy, or of another one first when the loops do not
\* follow the document.
OpportunityRowsReversed(url, strategies) ==
    Flatten([k \in 1..Len(strategies) |->
        LET strategy == strategies[Len(strategies) + 1 - k]
            opps == Get(strategy[2], "opportunities", <<>>)
        IN  [j \in 1..Len(opps) |-> OpportunityRow(url, strategy[1], opps[j])]])

\* The two inner loops of create_opportunities_sheet for one URL.
OpportunityRows(url, strategies) ==
    Flatten([k \in 1..Len(strategies) |->
        LET opps == Get(strategies[k][2], "opportunities", <<>>)
        IN  [j \in 1..Len(opps) |-> OpportunityRow(url, strategies[k][1], opps[j])]])

\* An Opportunities sheet that lists the first URL only.
CreateOpportunitiesFirstUrlOnly(workbook, d) ==
    LET psi_results == Get(d, "psi_results", <<>>)
        headers == <<"URL", "Strategy", "Opportunity", "Est. Savings (ms)",
                     "Est. Savings (KB)", "Description">>
        rows == IF psi_results = <<>> THEN <<>>
                ELSE OpportunityRows(Get(psi_results[1], "url", ""),
                                     Get(psi_results[1], "strategies", <<>>))
    IN  create_sheet(workbook, Sheet("Opportunities", headers, rows), 3)

create_opportunities_sheet(workbook, d) ==
    LET psi_results == Get(d, "psi_results", <<>>)
        headers == <<"URL", "Strategy", "Opportunity", "Est. Savings (ms)",
                     "Est. Savings (KB)", "Description">>
        rows == Flatten([i \in 1..Len(psi_results) |->
                    OpportunityRows(Get(psi_results[i], "url", ""),
                                    Get(psi_results[i], "strategies", <<>>))])
    IN  create_sheet(workbook, Sheet("Opportunities", headers, rows), 3)

\* The calls of generate_excel, in its order.
BuildOrder == <<"summary", "core_web_vitals", "network_analysis", "opportunities">>

\* One of the four calls.
RunBuilder(name, workbook, d) ==
    CASE name = "summary" -> create_summary_sheet(workbook, d)
      [] name = "core_web_vitals" -> create_core_web_vitals_sheet(workbook, d)
      [] name = "network_analysis" -> create_network_analysis_sheet(workbook, d)
      [] OTHER -> create_opportunities_sheet(workbook, d)

\* openpyxl.Workbook(): a workbook with its default sheet.
NewWorkbook == <<[title |-> "Sheet", headers |-> <<>>, rows |-> <<>>, freeze_panes |-> None]>>

\* A workbook whose default sheet is left in.
KeepDefault(workbook) == workbook

\* if "Sheet" in wb.sheetnames: wb.remove(wb["Sheet"])
RemoveDefault(workbook) ==
    IF \E i \in 1..Len(workbook) : workbook[i].title = "Sheet"
    THEN LET at == CHOOSE i \in 1..Len(workbook) :
                        /\ workbook[i].title = "Sheet"
                        /\ \A j \in 1..(i - 1) : workbook[j].title # "Sheet"
         IN  SubSeq(workbook, 1, at - 1) \o SubSeq(workbook, at + 1, Len(workbook))
    ELSE workbook

\* The dict generate_excel returns; the file name and the time are left out.
GenerateResult(d) ==
    LET urls == Len(Get(d, "urls", <<>>))
    IN  [success |-> TRUE,
         sheets |-> <<"Summary", "Core Web Vitals", "Network Analysis", "Opportunities">>,
         url_count |-> IF urls # 0 THEN urls ELSE Len(Get(d, "psi_results", <<>>))]

\* The validation of main: `if not psi_results` is not taken.
Validates(d) == Get(d, "psi_results", <<>>) # <<>>

(***************************************************************************)
(* The collected-data documents.  A strategy result is one of              *)
(* StrategyVariants: full, or with some nested field missing; the          *)
(* opportunity lists are those parse_opportunities returns.  A document    *)
(* has up to MaxUrls PSI results, all of them full mobile and desktop      *)
(* results but for up to two, and one of NetworkVariants.                  *)
(***************************************************************************)
MaxUrls == 2

ReportUrls == <<"https://a.test/", "https://b.test/shop/page", "https://c.test/x">>

FullVitals ==
    [lcp |-> [value |-> PyFloat(250, 2), unit |-> "s", status |-> "good"],
     inp |-> [value |-> PyFloat(350, 0), unit |-> "ms", status |-> "needs_improvement"],
     cls |-> [value |-> PyFloat(300, 3), unit |-> "", status |-> "poor"],
     fcp |-> [value |-> PyFloat(105, 2), unit |-> "s", status |-> "good"],
     ttfb |-> [value |-> PyFloat(2000, 0), unit |-> "ms", status |-> "poor"],
     tbt |-> [value |-> PyFloat(120, 0), unit |-> "ms"],
     speed_index |-> [value |-> PyFloat(340, 2), unit |-> "s"]]

PartialVitals ==
    [lcp |-> [value |-> PyFloat(250, 2)],
     inp |-> EmptyDict,
     cls |-> [unit |-> "", status |-> "poor"]]

FullField ==
    [lcp_p75 |-> PyFloat(210, 2), inp_p75 |-> PyInt(180), cls_p75 |-> PyFloat(50, 3)]

PartialField == [lcp_p75 |-> PyFloat(0, 2), cls_p75 |-> Null]

ThreeOpportunities ==
    parse_opportunities(OppDocument(<<"ms_150_4", "bytes_only", "ms_300">>, TRUE))

OneOpportunity == parse_opportunities(OppDocument(<<"passing", "ms_0_4">>, TRUE))

StrategyVariants ==
    {"full", "lab_only", "no_field_key", "partial_field", "no_opportunities",
     "empty_opportunities", "partial_opportunity", "no_vitals", "partial_vitals",
     "no_score", "empty"}

StrategyData(variant) ==
    LET full == [performance_score |-> 87, core_web_vitals |-> FullVitals,
                 field_metrics |-> FullField, opportunities |-> ThreeOpportunities]
    IN  CASE variant = "full" -> full
          [] variant = "lab_only" ->
                [full EXCEPT !.field_metrics = Null, !.opportunities = OneOpportunity]
          [] variant = "no_field_key" ->
                [k \in DOMAIN full \ {"field_metrics"} |-> full[k]]
          [] variant = "partial_field" -> [full EXCEPT !.field_metrics = PartialField]
          [] variant = "no_opportunities" ->
                [k \in DOMAIN full \ {"opportunities"} |-> full[k]]
          [] variant = "empty_opportunities" -> [full EXCEPT !.opportunities = <<>>]
          [] variant = "partial_opportunity" ->
                [full EXCEPT !.opportunities = <<[id |-> "unminified-css"]>>]
          [] variant = "no_vitals" ->
                [k \in DOMAIN full \ {"core_web_vitals"} |-> full[k]]
          [] variant = "partial_vitals" -> [full EXCEPT !.core_web_vitals = PartialVitals]
          [] variant = "no_score" ->
                [k \in DOMAIN full \ {"performance_score"} |-> full[k]]
          [] OTHER -> EmptyDict

\* The shapes of one PSI result: which strategies it has, in which order.
PsiShapes ==
    {<<"mobile", m>> : m \in StrategyVariants}
        \cup {<<"desktop", d>> : d \in {"full", "lab_only"}}
        \cup {<<"both", m, d>> : m \in StrategyVariants, d \in {"full", "lab_only"}}
        \cup {<<"desktop_first">>, <<"no_strategies">>, <<"empty_strategies">>, <<"no_url">>}

PsiResult(url, shape) ==
    CASE shape[1] = "mobile" ->
            [url |-> url, strategies |-> <<<<"mobile", StrategyData(shape[2])>>>>]
      [] shape[1] = "desktop" ->
            [url |-> url, strategies |-> <<<<"desktop", StrategyData(shape[2])>>>>]
      [] shape[1] = "both" ->
            [url |-> url, strategies |-> <<<<"mobile", StrategyData(shape[2])>>,
                                           <<"desktop", StrategyData(shape[3])>>>>]
      [] shape[1] = "desktop_first" ->
            [url |-> url, strategies |-> <<<<"desktop", StrategyData("full")>>,
                                           <<"mobile", StrategyData("lab_only")>>>>]
      [] shape[1] = "no_strategies" -> [url |-> url]
      [] shape[1] = "empty_strategies" -> [url |-> url, strategies |-> <<>>]
      [] OTHER -> [strategies |-> <<<<"mobile", StrategyData("full")>>>>]

\* The lists of up to MaxUrls PSI results with at most `most` of them not
\* a full mobile and desktop result.
PsiResultListsWith(most) ==
    UNION {UNION {{[i \in 1..n |-> PsiResult(ReportUrls[i],
                        IF i \in D THEN dev[i] ELSE <<"both", "full", "full">>)] :
                        dev \in [D -> PsiShapes]} :
                    D \in {S \in SUBSET (1..n) : Cardinality(S) <= most}} :
            n \in 0..MaxUrls}

PsiResultLists == PsiResultListsWith(2)

NetworkSummary ==
    [total_requests |-> 12, total_transfer_bytes |-> 3 * 1024 * 1024 + 5243,
     by_type |-> [script |-> [count |-> 4, bytes |-> 2 * 1024 * 1024],
                  image |-> [count |-> 5, bytes |-> 1024 * 1024 + 512],
                  stylesheet |-> [count |-> 2, bytes |-> 2560],
                  font |-> [count |-> 1, bytes |-> 2171]]]

LargestResources ==
    <<[url |-> "https://a.test/static/app.js", type |-> "script", size_bytes |-> 1536],
      [url |-> "https://a.test/hero.png", type |-> "image", size_bytes |-> 1024]>>

NetworkVariants == {"no_key", "none", "nested", "flat", "url_only", "partial"}

NetworkResults(variant) ==
    CASE variant = "nested" ->
            <<[url |-> ReportUrls[1], summary |-> NetworkSummary,
               largest_resources |-> LargestResources]>>
      [] variant = "flat" ->
            <<[url |-> ReportUrls[1], total_requests |-> 12,
               total_transfer_bytes |-> NetworkSummary.total_transfer_bytes,
               by_type |-> NetworkSummary.by_type,
               largest_resources |-> LargestResources]>>
      [] variant = "url_only" -> <<[url |-> ReportUrls[1]]>>
      [] variant = "partial" ->
            <<[summary |-> [by_type |-> [script |-> [count |-> 4],
                                         image |-> EmptyDict]],
               largest_resources |-> <<[type |-> "script"]>>]>>
      [] OTHER -> <<>>

\* The documents json.load returns.
ReportDocuments ==
    {[psi_results |-> psi, network_results |-> NetworkResults("nested")] :
        psi \in PsiResultLists}
    \cup {IF network = "no_key" THEN [psi_results |-> psi]
          ELSE [psi_results |-> psi, network_results |-> NetworkResults(network)] :
            psi \in PsiResultListsWith(1), network \in NetworkVariants}
    \cup {[psi_files |-> <<"psi_1.json">>, network_results |-> NetworkResults("nested")],
          [network_results |-> NetworkResults("nested")],
          [urls |-> <<ReportUrls[1], ReportUrls[2], ReportUrls[3]>>,
           psi_results |-> <<PsiResult(ReportUrls[1], <<"both", "full", "full">>)>>]}

\* What the --data path holds.
DataFiles ==
    {[kind |-> "missing"], [kind |-> "invalid"]}
        \cup {[kind |-> "json", data |-> d] : d \in ReportDocuments}

(***************************************************************************)
(* SpecReport: one run of main of generate_excel.py.  main reads and       *)
(* validates the data and enters generate_excel, which creates the         *)
(* workbook; the four builders are invoked in generate_excel's order; the  *)
(* default sheet is removed and the workbook saved.                        *)
(***************************************************************************)
InitReport ==
    /\ pc = "report_main"
    /\ data_file \in DataFiles
    /\ data = EmptyDict
    /\ wb = <<>>
    /\ to_build = BuildOrder
    /\ built = <<>>
    /\ saved = <<>>
    /\ report = EmptyDict
    /\ ClassifyIdle
    /\ LabIdle
    /\ FieldIdle
    /\ NetIdle
    /\ FetchIdle
    /\ LateIdle

\* main up to the call of generate_excel, and openpyxl.Workbook() in it.
ReportMain ==
    /\ pc = "report_main"
    /\ IF data_file.kind = "missing"
       THEN /\ report' = [exit_code |-> 1, success |-> FALSE,
                          error |-> "Failed to read data file"]
            /\ pc' = "report_exit"
            /\ UNCHANGED <<data, wb>>
       ELSE IF data_file.kind = "invalid"
       THEN /\ report' = [exit_code |-> 1, success |-> FALSE,
                          error |-> "Failed to parse JSON data"]
            /\ pc' = "report_exit"
            /\ UNCHANGED <<data, wb>>
       ELSE IF ~Validates(data_file.data)
       THEN /\ report' = [exit_code |-> 1, success |-> FALSE,
                          error |-> IF Get(data_file.data, "psi_files", <<>>) # <<>>
                                    THEN "Invalid data format"
                                    ELSE "No PSI results found in data"]
            /\ pc' = "report_exit"
            /\ data' = data_file.data
            /\ UNCHANGED wb
       ELSE /\ data' = data_file.data
            /\ wb' = NewWorkbook
            /\ pc' = "generate"
            /\ UNCHANGED report
    /\ UNCHANGED <<data_file, to_build, built, saved, classifyVars, labVars, fieldVars,
                   netVars, fetchVars, lateVars>>

\* The next of the four create_..._sheet calls.  The builders read every
\* field with a default, so that none raises on a missing key.
CreateNextSheet ==
    /\ pc = "generate"
    /\ to_build # <<>>
    /\ wb' = RunBuilder(Head(to_build), wb, data)
    /\ to_build' = Tail(to_build)
    /\ built' = Append(built, Head(to_build))
    /\ UNCHANGED <<pc, report, data_file, data, saved, classifyVars, labVars, fieldVars,
                   netVars, fetchVars, lateVars>>

\* The rest of generate_excel, and the return of main.
SaveWorkbook ==
    /\ pc = "generate"
    /\ to_build = <<>>
    /\ wb' = RemoveDefault(wb)
    /\ saved' = <<wb'>>
    /\ report' = [exit_code |-> 0] @@ GenerateResult(data)
    /\ pc' = "report_exit"
    /\ UNCHANGED <<data_file, data, to_build, built, classifyVars, labVars, fieldVars,
                   netVars, fetchVars, lateVars>>

NextReport ==
    \/ ReportMain
    \/ CreateNextSheet
    \/ SaveWorkbook

SpecReport == InitReport /\ [][NextReport]_vars

(***************************************************************************)
(* SpecBuilders: the four builders called on a new workbook in any order,  *)
(* as a caller other than generate_excel may call them, and the workbook   *)
(* saved as generate_excel saves it.                                       *)
(***************************************************************************)
BuildOrders ==
    {order \in [1..4 -> {BuildOrder[i] : i \in 1..4}] :
        \A i, j \in 1..4 : i # j => order[i] # order[j]}

BuilderDocuments ==
    {[psi_results |-> psi, network_results |-> NetworkResults("nested")] :
        psi \in {l \in PsiResultLists : Len(l) = 1}}

InitBuilders ==
    /\ pc = "generate"
    /\ data \in BuilderDocuments
    /\ data_file = [kind |-> "json", data |-> data]
    /\ wb = NewWorkbook
    /\ to_build \in BuildOrders
    /\ built = <<>>
    /\ saved = <<>>
    /\ report = EmptyDict
    /\ ClassifyIdle
    /\ LabIdle
    /\ FieldIdle
    /\ NetIdle
    /\ FetchIdle
    /\ LateIdle

NextBuilders ==
    \/ CreateNextSheet
    \/ SaveWorkbook

SpecBuilders == InitBuilders /\ [][NextBuilders]_vars

(***************************************************************************)
(* The lab fetch: main of fetch_psi.py, which calls fetch_psi once per     *)
(* requested strategy.  The provider answers a call with an HTTP response, *)
(* or the call times out, or it fails in some other way.                   *)
(***************************************************************************)
MaxFetchUrls == 2

FetchStrategies == {"mobile", "desktop"}

\* The body of a 200 response.
ProviderDocument ==
    [lighthouseResult |-> OppDocument(<<"ms_150_4", "bytes_only", "ms_300">>, TRUE)]

Responses ==
    {[kind |-> "http", status |-> 200, body |-> ProviderDocument],
     [kind |-> "http", status |-> 429, text |-> "quota"],
     [kind |-> "http", status |-> 500, text |-> "backend"],
     [kind |-> "timeout"],
     [kind |-> "error", message |-> "connection reset"]}

\* fetch_psi: the dict it returns, or the exception it leaves with.  Of the
\* entries of a successful result, the score and the opportunities are
\* kept.
fetch_psi(url, strategy, response) ==
    IF response.kind = "timeout" THEN [raised |-> "TimeoutError"]
    ELSE IF response.kind = "error" THEN [raised |-> "Exception", message |-> response.message]
    ELSE IF response.status # 200
    THEN [success |-> FALSE, strategy |-> strategy,
          error |-> "API request failed: " \o ToString(response.status) \o " - "
                        \o response.text]
    ELSE LET lighthouse_result_ == Get(response.body, "lighthouseResult", EmptyDict)
             categories == Get(lighthouse_result_, "categories", EmptyDict)
             performance == Get(categories, "performance", EmptyDict)
             score == Get(performance, "score", <<>>)
         IN  [success |-> TRUE, strategy |-> strategy,
              performance_score |-> IF score = <<>> THEN 0 ELSE score[1],
              opportunities |-> parse_opportunities(lighthouse_result_)]

InitFetch ==
    /\ pc = "fetch_main"
    /\ args \in [url : {ReportUrls[i] : i \in 1..MaxFetchUrls},
                  strategy : FetchStrategies \cup {"both"}]
    /\ responses \in [FetchStrategies -> Responses]
    /\ to_fetch = <<>>
    /\ psi_output = EmptyDict
    /\ calls = <<>>
    /\ psi_exit = EmptyDict
    /\ ClassifyIdle
    /\ LabIdle
    /\ FieldIdle
    /\ NetIdle
    /\ ReportIdle
    /\ LateIdle

\* main up to its loop.
FetchMain ==
    /\ pc = "fetch_main"
    /\ psi_output' = [success |-> TRUE, url |-> args.url, strategies |-> <<>>]
    /\ to_fetch' = IF args.strategy = "both" THEN <<"mobile", "desktop">>
                   ELSE <<args.strategy>>
    /\ pc' = "fetch_loop"
    /\ UNCHANGED <<args, responses, calls, psi_exit, classifyVars, labVars, fieldVars,
                   netVars, reportVars, lateVars>>

\* One turn of the loop of main: a failure of the call leaves the loop.
FetchStrategy ==
    /\ pc = "fetch_loop"
    /\ to_fetch # <<>>
    /\ LET strategy == Head(to_fetch)
           strategy_result == fetch_psi(args.url, strategy, responses[strategy])
       IN  /\ calls' = Append(calls, strategy)
           /\ IF "raised" \in DOMAIN strategy_result
              THEN /\ psi_output' =
                        [error |-> IF strategy_result.raised = "TimeoutError"
                                   THEN "Timeout fetching " \o strategy \o " data"
                                   ELSE "Error fetching " \o strategy \o " data: "
                                            \o strategy_result.message,
                         success |-> FALSE] @@ psi_output
                   /\ pc' = "fetch_output"
                   /\ UNCHANGED to_fetch
              ELSE IF ~strategy_result.success
              THEN /\ psi_output' =
                        [error |-> strategy_result.error, success |-> FALSE] @@ psi_output
                   /\ pc' = "fetch_output"
                   /\ UNCHANGED to_fetch
              ELSE /\ psi_output' =
                        [psi_output EXCEPT !.strategies =
                            Append(@, <<strategy, strategy_result>>)]
                   /\ to_fetch' = Tail(to_fetch)
                   /\ pc' = IF Tail(to_fetch) = <<>> THEN "fetch_output" ELSE "fetch_loop"
    /\ UNCHANGED <<args, responses, psi_exit, classifyVars, labVars, fieldVars, netVars,
                   reportVars, lateVars>>

\* The result is written, and main returns.
FetchOutput ==
    /\ pc = "fetch_output"
    /\ psi_exit' = [output |-> psi_output,
                    exit_code |-> IF psi_output.success THEN 0 ELSE 1]
    /\ pc' = "fetch_exit"
    /\ UNCHANGED <<args, responses, to_fetch, psi_output, calls, classifyVars, labVars,
                   fieldVars, netVars, reportVars, lateVars>>

NextFetch ==
    \/ FetchMain
    \/ FetchStrategy
    \/ FetchOutput

SpecFetch == InitFetch /\ [][NextFetch]_vars


(***************************************************************************)
(* Claims on the report table builder (SpecBuilders, SpecReport)           *)
(***************************************************************************)
FixedTitles == <<"Summary", "Core Web Vitals", "Network Analysis", "Opportunities">>

\* wb.sheetnames
Titles(workbook) == [i \in 1..Len(workbook) |-> workbook[i].title]

\* The sheet of the saved workbook with a title.
SavedSheet(title) ==
    saved[1][CHOOSE i \in 1..Len(saved[1]) : saved[1][i].title = title]

\* C13 as stated: whatever the order in which the four builders are
\* invoked, the persisted workbook has the four sheets in the fixed order.
C13_FixedOrderForEveryBuildOrder ==
    saved # <<>> => Titles(saved[1]) = FixedTitles

\* C13, amended: whatever the order in which the four builders are
\* invoked, the persisted workbook has exactly the four sheets, each once,
\* and no default sheet; they are in the fixed order when the builders are
\* invoked in the order of generate_excel.
C13_FourSheetsInCallOrder ==
    saved # <<>> =>
        /\ Len(saved[1]) = 4
        /\ {saved[1][i].title : i \in 1..4} = {FixedTitles[i] : i \in 1..4}
        /\ built = BuildOrder => Titles(saved[1]) = FixedTitles

\* The builders were invoked in the order of generate_excel and the saved
\* workbook has the fixed order.
C13_Witness ==
    /\ saved # <<>>
    /\ built = BuildOrder
    /\ Titles(saved[1]) = FixedTitles
    /\ Len(wb) = 4

\* A workbook was written.
Reported == saved # <<>>

PsiResults == Get(data, "psi_results", <<>>)

StrategiesOf(psi) == Get(psi, "strategies", <<>>)

MobileOpportunities(psi) ==
    Get(ItemsGet(StrategiesOf(psi), "mobile", EmptyDict), "opportunities", <<>>)

\* The (URL, strategy) pairs of the document, in document order, each with
\* its strategy result.
StrategyPairs ==
    Flatten([i \in 1..Len(PsiResults) |->
        [k \in 1..Len(StrategiesOf(PsiResults[i])) |->
            <<Get(PsiResults[i], "url", ""), StrategiesOf(PsiResults[i])[k][1],
              StrategiesOf(PsiResults[i])[k][2]>>]])

\* The (URL, strategy, opportunity) triples of the document, in document
\* order, each with the position of its (URL, strategy) pair.
OpportunityTriples ==
    Flatten([p \in 1..Len(StrategyPairs) |->
        LET opps == Get(StrategyPairs[p][3], "opportunities", <<>>)
        IN  [j \in 1..Len(opps) |-> <<StrategyPairs[p][1], StrategyPairs[p][2], opps[j], p>>]])

StrategyLabel(name) == IF name = "mobile" THEN "Mobile" ELSE "Desktop"

\* C14: the Summary sheet has one data row per analyzed URL, in document
\* order, and the Top Issue of a row is the title of a mobile opportunity
\* of that URL with the highest savings_ms, or empty when it has none.
C14_SummaryRowPerUrlTopIssue ==
    Reported =>
        LET rows == SavedSheet("Summary").rows
        IN  /\ Len(rows) = Len(PsiResults)
            /\ \A i \in 1..Len(rows) :
                  LET opps == MobileOpportunities(PsiResults[i])
                  IN  /\ rows[i][1] = Text(Get(PsiResults[i], "url", ""))
                      /\ IF opps = <<>> THEN rows[i][7] = Text("")
                         ELSE \E j \in 1..Len(opps) :
                                /\ \A k \in 1..Len(opps) :
                                      SavingsOf(opps[j]) >= SavingsOf(opps[k])
                                /\ rows[i][7] = Text(Get(opps[j], "title", ""))

\* Two URLs: the first has three mobile opportunities and its Top Issue is
\* the one of 300 ms, the provider's third; the second has a desktop result
\* only and an empty Top Issue.
C14_Witness ==
    /\ Reported
    /\ Len(PsiResults) = 2
    /\ Len(MobileOpportunities(PsiResults[1])) = 3
    /\ MobileOpportunities(PsiResults[2]) = <<>>
    /\ SavedSheet("Summary").rows[1][1] = Text("https://a.test/")
    /\ SavedSheet("Summary").rows[1][7] = Text("offscreen-images")
    /\ SavedSheet("Summary").rows[2][1] = Text("https://b.test/shop/page")
    /\ SavedSheet("Summary").rows[2][7] = Text("")

FieldColumns == {<<5, "lcp_p75", "s">>, <<7, "inp_p75", "ms">>, <<9, "cls_p75", "">>}

\* Whether a strategy result has no value for a field metric: no field
\* data, no such key, or a null.
FieldAbsent(strategy_data, key) ==
    LET field == Get(strategy_data, "field_metrics", Null)
    IN  DOMAIN field = {} \/ key \notin DOMAIN field \/ field[key] = Null

\* C15: the Core Web Vitals sheet has one data row per (URL, strategy)
\* pair, in document order, and each field-metric cell is never blank: the
\* value followed by its unit, or N/A when the value is absent.
C15_FieldCellsNeverBlank ==
    Reported =>
        LET rows == SavedSheet("Core Web Vitals").rows
        IN  /\ Len(rows) = Len(StrategyPairs)
            /\ \A r \in 1..Len(rows) :
                  /\ rows[r][1] = Text(StrategyPairs[r][1])
                  /\ rows[r][2] = Text(StrategyLabel(StrategyPairs[r][2]))
                  /\ \A col \in FieldColumns :
                        /\ rows[r][col[1]].text # ""
                        /\ IF FieldAbsent(StrategyPairs[r][3], col[2])
                           THEN rows[r][col[1]] = Text("N/A")
                           ELSE rows[r][col[1]] =
                                  Text(Str(StrategyPairs[r][3].field_metrics[col[2]]) \o col[3])

\* A row with a field LCP of zero, shown as 0.0s, no INP key and a null
\* CLS, both N/A; and a row of a strategy without field data.
C15_Witness ==
    /\ Reported
    /\ Len(StrategyPairs) = 3
    /\ \E r, q \in 1..3 :
          /\ SavedSheet("Core Web Vitals").rows[r][5] = Text("0.0s")
          /\ SavedSheet("Core Web Vitals").rows[r][7] = Text("N/A")
          /\ SavedSheet("Core Web Vitals").rows[r][9] = Text("N/A")
          /\ SavedSheet("Core Web Vitals").rows[q][5] = Text("2.1s")
          /\ SavedSheet("Core Web Vitals").rows[q][7] = Text("180ms")
          /\ SavedSheet("Core Web Vitals").rows[q][9] = Text("0.05")

\* The document of the end-to-end scenario: the first URL with lab, field
\* and network data, the second with lab data only.
EndToEndDocument ==
    [psi_results |-> <<PsiResult(ReportUrls[1], <<"both", "full", "full">>),
                       PsiResult(ReportUrls[2], <<"both", "lab_only", "lab_only">>)>>,
     network_results |-> NetworkResults("nested")]

RowsOfUrl(rows, url) == {r \in 1..Len(rows) : rows[r][1] = Text(url)}

\* C16 as stated: the Summary sheet has 2 data rows, the second row has
\* field-derived columns rendered as N/A, and the Opportunities sheet has
\* rows for the first URL only.
C16_EndToEndAsStated ==
    (Reported /\ data = EndToEndDocument) =>
        /\ Len(SavedSheet("Summary").rows) = 2
        /\ \E c \in 1..7 : SavedSheet("Summary").rows[2][c] = Text("N/A")
        /\ \A r \in 1..Len(SavedSheet("Opportunities").rows) :
              SavedSheet("Opportunities").rows[r][1] = Text(ReportUrls[1])

\* C16, amended: the Summary sheet has 2 data rows and no N/A cell, for it
\* has no field-derived column; in the Core Web Vitals sheet the field
\* columns of the second URL's rows are N/A and those of the first URL's
\* are not; and the Opportunities sheet has a row for every opportunity of
\* every strategy of both URLs.
C16_EndToEnd ==
    (Reported /\ data = EndToEndDocument) =>
        LET summary == SavedSheet("Summary").rows
            vitals == SavedSheet("Core Web Vitals").rows
            opps == SavedSheet("Opportunities").rows
        IN  /\ Len(summary) = 2
            /\ \A r \in 1..2 : \A c \in 1..7 : summary[r][c] # Text("N/A")
            /\ Cardinality(RowsOfUrl(vitals, ReportUrls[1])) = 2
            /\ Cardinality(RowsOfUrl(vitals, ReportUrls[2])) = 2
            /\ \A r \in 1..Len(vitals) : \A col \in FieldColumns :
                  (vitals[r][col[1]] = Text("N/A")) <=> (r \in RowsOfUrl(vitals, ReportUrls[2]))
            /\ Cardinality(RowsOfUrl(opps, ReportUrls[1])) = 2 * Len(ThreeOpportunities)
            /\ Cardinality(RowsOfUrl(opps, ReportUrls[2])) = 2 * Len(OneOpportunity)
            /\ Len(opps) = 2 * Len(ThreeOpportunities) + 2 * Len(OneOpportunity)

\* The scenario's workbook, with rows of the second URL in Opportunities.
C16_Witness ==
    /\ Reported
    /\ data = EndToEndDocument
    /\ Len(SavedSheet("Summary").rows) = 2
    /\ Len(SavedSheet("Opportunities").rows) = 8
    /\ SavedSheet("Opportunities").rows[7][1] = Text(ReportUrls[2])
    /\ SavedSheet("Core Web Vitals").rows[3][5] = Text("N/A")

\* C17: the Opportunities sheet has one data row per (URL, strategy,
\* opportunity) triple, in document order: URL by URL, strategy by strategy
\* and in the order of the strategy's list, which is non-increasing in
\* savings_ms.
C17_OpportunityRowPerTriple ==
    Reported =>
        LET rows == SavedSheet("Opportunities").rows
        IN  /\ Len(rows) = Len(OpportunityTriples)
            /\ \A r \in 1..Len(rows) :
                  /\ rows[r][1] = Text(OpportunityTriples[r][1])
                  /\ rows[r][2] = Text(StrategyLabel(OpportunityTriples[r][2]))
                  /\ rows[r][3] = Text(Get(OpportunityTriples[r][3], "title", ""))
            /\ \A r \in 1..(Len(rows) - 1) :
                  OpportunityTriples[r][4] = OpportunityTriples[r + 1][4] =>
                      SavingsOf(OpportunityTriples[r][3]) >= SavingsOf(OpportunityTriples[r + 1][3])

\* Two URLs of two strategies: twelve rows, the first URL's mobile rows,
\* then its desktop rows, then the second URL's.
C17_Witness ==
    /\ Reported
    /\ Len(SavedSheet("Opportunities").rows) = 12
    /\ SavedSheet("Opportunities").rows[1][1] = Text(ReportUrls[1])
    /\ SavedSheet("Opportunities").rows[1][2] = Text("Mobile")
    /\ SavedSheet("Opportunities").rows[1][3] = Text("offscreen-images")
    /\ SavedSheet("Opportunities").rows[1][4] = Number(300)
    /\ SavedSheet("Opportunities").rows[3][2] = Text("Mobile")
    /\ SavedSheet("Opportunities").rows[4][2] = Text("Desktop")
    /\ SavedSheet("Opportunities").rows[7][1] = Text(ReportUrls[2])

LabColumns == {<<4, "lcp">>, <<6, "inp">>, <<8, "cls">>, <<10, "fcp">>, <<11, "ttfb">>, <<12, "tbt">>}

StatusColumns == {<<4, "lcp">>, <<5, "inp">>, <<6, "cls">>}

TypeColumns == {<<4, 5, "script">>, <<6, 7, "image">>, <<8, 9, "stylesheet">>, <<10, 11, "font">>}

\* The readings of one metric of a strategy result, empty when a level is
\* missing.
Reading(strategy_data, name) ==
    Get(Get(strategy_data, "core_web_vitals", EmptyDict), name, EmptyDict)

\* The Summary cells of the missing fields of the document are empty.
SummaryMissingEmpty ==
    LET rows == SavedSheet("Summary").rows
    IN  \A i \in 1..Len(rows) :
          LET psi == PsiResults[i]
              mobile == ItemsGet(StrategiesOf(psi), "mobile", EmptyDict)
              desktop == ItemsGet(StrategiesOf(psi), "desktop", EmptyDict)
              opps == Get(mobile, "opportunities", <<>>)
          IN  /\ "url" \notin DOMAIN psi => rows[i][1] = Text("")
              /\ "performance_score" \notin DOMAIN mobile => rows[i][2] = Text("")
              /\ "performance_score" \notin DOMAIN desktop => rows[i][3] = Text("")
              /\ \A col \in StatusColumns :
                    "status" \notin DOMAIN Reading(mobile, col[2]) => rows[i][col[1]] = Text("")
              /\ (opps = <<>> \/ "title" \notin DOMAIN opps[1]) => rows[i][7] = Text("")

\* The Core Web Vitals cells of the missing fields are empty, and N/A for
\* a field metric.
VitalsMissingEmpty ==
    LET rows == SavedSheet("Core Web Vitals").rows
    IN  \A r \in 1..Len(rows) :
          LET strategy_data == StrategyPairs[r][3]
          IN  /\ "performance_score" \notin DOMAIN strategy_data => rows[r][3] = Text("")
              /\ \A col \in LabColumns :
                    "value" \notin DOMAIN Reading(strategy_data, col[2]) =>
                        rows[r][col[1]] = Text("")
              /\ \A col \in FieldColumns :
                    FieldAbsent(strategy_data, col[2]) => rows[r][col[1]] = Text("N/A")

\* The Opportunities cells of the missing fields are empty.
OpportunitiesMissingEmpty ==
    LET rows == SavedSheet("Opportunities").rows
    IN  \A r \in 1..Len(rows) :
          LET opp == OpportunityTriples[r][3]
          IN  /\ "title" \notin DOMAIN opp => rows[r][3] = Text("")
              /\ "savings_ms" \notin DOMAIN opp => rows[r][4] = Text("")
              /\ "savings_bytes" \notin DOMAIN opp => rows[r][5] = Text("")
              /\ "description" \notin DOMAIN opp => rows[r][6] = Text("")

\* The Network Analysis cells of the missing fields are empty.
NetworkMissingEmpty ==
    LET rows == SavedSheet("Network Analysis").rows
        network_results == Get(data, "network_results", <<>>)
    IN  \A i \in 1..Len(rows) :
          LET network == network_results[i]
              summary == Get(network, "summary", EmptyDict)
              flat == Get(network, "by_type", EmptyDict)
              by_type == IF DOMAIN flat # {} THEN flat ELSE Get(summary, "by_type", EmptyDict)
          IN  /\ "url" \notin DOMAIN network => rows[i][1] = Text("")
              /\ "total_requests" \notin (DOMAIN network \cup DOMAIN summary) =>
                    rows[i][2] = Text("")
              /\ "total_transfer_bytes" \notin (DOMAIN network \cup DOMAIN summary) =>
                    rows[i][3] = Text("")
              /\ \A col \in TypeColumns :
                    /\ "count" \notin DOMAIN Get(by_type, col[3], EmptyDict) =>
                          rows[i][col[1]] = Text("")
                    /\ "bytes" \notin DOMAIN Get(by_type, col[3], EmptyDict) =>
                          rows[i][col[2]] = Text("")
              /\ Get(network, "largest_resources", <<>>) = <<>> => rows[i][12] = Text("")

\* A run of main on a document that passes its validation is over.
ValidatedRunOver ==
    /\ pc = "report_exit"
    /\ data_file.kind = "json"
    /\ Validates(data_file.data)

\* C18: the sheet builders tolerate partial data: for a document with any
\* of its nested fields missing, building the four sheets raises no
\* exception and the cell of each missing field is empty (the cell of a
\* field metric, which is never blank, is N/A).
C18_MissingIsEmptyCell ==
    ValidatedRunOver =>
        /\ report.exit_code = 0
        /\ Reported
        /\ SummaryMissingEmpty
        /\ VitalsMissingEmpty
        /\ OpportunitiesMissingEmpty
        /\ NetworkMissingEmpty

HasPageData(d) ==
    Get(d, "psi_results", <<>>) # <<>> \/ Get(d, "network_results", <<>>) # <<>>

\* C20: main fails without writing a workbook only if the collected data
\* has neither lab results nor network results: whenever some page data
\* is present, a workbook is produced.
C20_FatalOnlyWithoutPageData ==
    (pc = "report_exit" /\ data_file.kind = "json" /\ HasPageData(data_file.data)) =>
        /\ Reported
        /\ report.exit_code = 0

Answered(strategy) ==
    responses[strategy].kind = "http" /\ responses[strategy].status = 200

\* C19: a failure is scoped to the strategy it concerns: with strategy
\* both, when the lab analysis of one strategy fails, the other strategy is
\* still analyzed and present in the result.
C19_FailureScopedToStrategy ==
    (pc = "fetch_exit" /\ args.strategy = "both") =>
        \A strategy \in FetchStrategies :
            Answered(strategy) =>
                /\ \E i \in 1..Len(calls) : calls[i] = strategy
                /\ \E i \in 1..Len(psi_exit.output.strategies) :
                      psi_exit.output.strategies[i][1] = strategy

(***************************************************************************)
(* SpecHistogram: parse_histogram on the histogram of one metric's data,   *)
(* as parse_crux_metrics calls it.  A histogram has up to MaxBuckets       *)
(* buckets; a bucket carries its density as a textual decimal of up to     *)
(* four decimals, as a number, or not at all.                              *)
(***************************************************************************)
MaxBuckets == 4

Densities ==
    {[str |-> <<"0", ".", "6", "0", "0", "4">>],
     [str |-> <<"0", ".", "3">>],
     [str |-> <<"0", ".", "0", "9", "9", "6">>],
     [num |-> Scale \div 10]}

Buckets == {[start |-> 0]} \cup {[start |-> 0, density |-> d] : d \in Densities}

Histograms == UNION {[1..n -> Buckets] : n \in 0..MaxBuckets}

InitHistogram ==
    /\ pc = "histogram_call"
    /\ record \in {EmptyDict} \cup {[histogram |-> h] : h \in Histograms}
    /\ parsed = EmptyDict
    /\ ClassifyIdle
    /\ LabIdle
    /\ NetIdle
    /\ MoreIdle

\* distribution = parse_histogram(metric_data.get("histogram", []))
ParseHistogram ==
    /\ pc = "histogram_call"
    /\ parsed' = parse_histogram(Get(record, "histogram", <<>>))
    /\ pc' = "histogram_return"
    /\ UNCHANGED <<record, classifyVars, labVars, netVars, moreVars>>

NextHistogram == ParseHistogram

SpecHistogram == InitHistogram /\ [][NextHistogram]_vars

(***************************************************************************)
(* Claims on parse_histogram (SpecHistogram)                               *)
(***************************************************************************)
BandKeys == <<"good", "needs_improvement", "poor">>

HistogramParsed == pc = "histogram_return"

HistogramGiven == Get(record, "histogram", <<>>)

\* The density of a bucket, in raw units; 0 for a bucket without one.
DensityOf(bucket) ==
    IF "density" \in DOMAIN bucket THEN Float(bucket.density) ELSE 0

Thousandth == Scale \div 1000

\* C22 as stated: a histogram of fewer than 3 buckets gives the empty
\* mapping, and one of at least 3 buckets gives exactly the keys good,
\* needs_improvement, poor bound to the densities of buckets 0, 1, 2.
C22_BoundToDensities ==
    HistogramParsed =>
        IF Len(HistogramGiven) < 3 THEN parsed = EmptyDict
        ELSE /\ DOMAIN parsed = {BandKeys[i] : i \in 1..3}
             /\ \A i \in 1..3 :
                   parsed[BandKeys[i]] * Thousandth = DensityOf(HistogramGiven[i])

\* C22, amended: a histogram of fewer than 3 buckets gives the empty
\* mapping, and one of at least 3 buckets gives exactly the keys good,
\* needs_improvement, poor bound to the densities of buckets 0, 1, 2
\* rounded to 3 decimals, the density of a bucket without one being 0.
C22_BoundToRoundedDensities ==
    HistogramParsed =>
        IF Len(HistogramGiven) < 3 THEN parsed = EmptyDict
        ELSE /\ DOMAIN parsed = {BandKeys[i] : i \in 1..3}
             /\ \A i \in 1..3 :
                   LET shown == parsed[BandKeys[i]] * Thousandth
                       given == DensityOf(HistogramGiven[i])
                   IN  /\ 2 * (shown - given) < Thousandth
                       /\ 2 * (given - shown) < Thousandth

\* A histogram of four buckets with the densities 0.6004, 0.3 and 0.0996
\* first: the distribution is 0.6, 0.3, 0.1.
C22_Witness ==
    /\ HistogramParsed
    /\ Len(HistogramGiven) = 4
    /\ DensityOf(HistogramGiven[1]) = 6004
    /\ DensityOf(HistogramGiven[3]) = 996
    /\ parsed = [good |-> 600, needs_improvement |-> 300, poor |-> 100]

(***************************************************************************)
(* SpecBlocking: the summary of up to MaxBlockingRecords records, each a   *)
(* stylesheet, a script or an image that starts early, just before 500 ms, *)
(* at 500 ms or later.                                                     *)
(***************************************************************************)
MaxBlockingRecords == 4

BlockingKinds ==
    {<<"stylesheet", BlockingStartMs * Scale - 1>>,
     <<"stylesheet", 600 * Scale>>,
     <<"script", 120 * Scale + (4 * Scale) \div 10>>,
     <<"script", BlockingStartMs * Scale>>,
     <<"image", 120 * Scale + (4 * Scale) \div 10>>,
     <<"other", 0>>}

BlockingLists ==
    UNION {{[i \in 1..n |->
                [RequestData(i, kinds[i][1]) EXCEPT
                    !.size_bytes = i, !.status = 200, !.start_time = kinds[i][2]]] :
              kinds \in [1..n -> BlockingKinds]} :
           n \in 0..MaxBlockingRecords}

InitBlocking ==
    /\ pc = "timing"
    /\ request_map \in BlockingLists
    /\ result = EmptyDict
    /\ n_events = 0
    /\ n_entries = 0
    /\ requested = [i \in 1..Len(request_map) |-> 1]
    /\ last_written = EmptyDict
    /\ since_request = EmptyDict
    /\ ClassifyIdle
    /\ LabIdle
    /\ FieldIdle
    /\ MoreIdle

NextBlocking == BuildSummary

SpecBlocking == InitBlocking /\ [][NextBlocking]_vars

(***************************************************************************)
(* Further claims on the network trace aggregator (Spec, SpecBlocking)     *)
(***************************************************************************)
\* The records a blocking resource may be: a stylesheet or a script that
\* starts before 500 ms.
MayBlock ==
    {i \in 1..Len(request_map) :
        /\ request_map[i].resource_type \in {"stylesheet", "script"}
        /\ request_map[i].start_time < BlockingStartMs * Scale}

\* The j-th of a set of positions, in record order.
Nth(positions, j) ==
    CHOOSE i \in positions : Cardinality({k \in positions : k < i}) = j - 1

\* C27: blocking_resources is exactly the subsequence, in record order, of
\* the records whose type is stylesheet or script and whose start time is
\* below 500 ms.
C27_BlockingSubsequence ==
    Summarized =>
        LET blocking == result.blocking_resources
        IN  /\ Len(blocking) = Cardinality(MayBlock)
            /\ \A j \in 1..Len(blocking) :
                  /\ blocking[j].url = request_map[Nth(MayBlock, j)].url
                  /\ blocking[j].type = request_map[Nth(MayBlock, j)].resource_type
                  /\ blocking[j].size_bytes = request_map[Nth(MayBlock, j)].size_bytes

\* A script that starts at 500 ms and an image that starts early are left
\* out, a stylesheet that starts just before 500 ms and a script that
\* starts early are listed, in record order.
C27_Witness ==
    /\ Summarized
    /\ Len(result.blocking_resources) = 2
    /\ \E i, j, k, l \in 1..Len(request_map) :
          /\ i < j
          /\ request_map[i].resource_type = "stylesheet"
          /\ request_map[i].start_time = BlockingStartMs * Scale - 1
          /\ request_map[j].resource_type = "script"
          /\ request_map[j].start_time < BlockingStartMs * Scale
          /\ result.blocking_resources[1].url = request_map[i].url
          /\ result.blocking_resources[2].url = request_map[j].url
          /\ request_map[k].resource_type = "script"
          /\ request_map[k].start_time = BlockingStartMs * Scale
          /\ request_map[l].resource_type = "image"
          /\ request_map[l].start_time < BlockingStartMs * Scale

\* The timing entries of a URL, since its last request-start, that carry a
\* size.
SizedEntries(url) ==
    SelectSeq(since_request[url].timing,
              LAMBDA entry : entry.transfer_size > 0 \/ entry.encoded_body_size > 0)

\* C30: the final size_bytes of a record follows a fixed precedence over
\* what arrived for its URL since its last request-start: the
\* transfer_size of its timing entry when that is > 0, otherwise the
\* encoded_body_size of that entry when that is > 0, otherwise the integer
\* content-length of its response, otherwise 0.  Of several timing entries
\* of one URL, the last that carries a size is the one that counts.
C30_SizePrecedence ==
    Summarized =>
        \A i \in 1..Len(request_map) :
            LET url == request_map[i].url
            IN  url \in DOMAIN since_request =>
                  LET sized == SizedEntries(url)
                      declared == since_request[url].content_length
                  IN  request_map[i].size_bytes =
                        IF sized # <<>>
                        THEN IF sized[Len(sized)].transfer_size > 0
                             THEN sized[Len(sized)].transfer_size
                             ELSE sized[Len(sized)].encoded_body_size
                        ELSE IF declared # Null THEN declared[1]
                        ELSE 0

\* Three records: one with both sizes in its timing entry and a
\* content-length, which has the transfer size; one with the encoded size
\* only; and one with a content-length and a timing entry without sizes.
C30_Witness ==
    /\ Summarized
    /\ \E i \in 1..Len(request_map) :
          LET arrived == since_request[request_map[i].url]
          IN  /\ arrived.content_length = <<7>>
              /\ Len(arrived.timing) = 1
              /\ arrived.timing[1].transfer_size = 9
              /\ arrived.timing[1].encoded_body_size = 4
              /\ request_map[i].size_bytes = 9
    /\ \E i \in 1..Len(request_map) :
          LET arrived == since_request[request_map[i].url]
          IN  /\ Len(arrived.timing) = 1
              /\ arrived.timing[1].transfer_size = 0
              /\ arrived.timing[1].encoded_body_size = 4
              /\ request_map[i].size_bytes = 4

(***************************************************************************)
(* SpecConvert: one call of convert_to_display_unit of fetch_psi.py or of  *)
(* convert_p75 of fetch_crux.py, on the kinds and values of the            *)
(* classifier's calls.                                                     *)
(***************************************************************************)
earlyVars == <<classifyVars, labVars, fieldVars, netVars, reportVars, fetchVars>>

EarlyIdle ==
    /\ ClassifyIdle
    /\ LabIdle
    /\ FieldIdle
    /\ NetIdle
    /\ ReportIdle
    /\ FetchIdle

InitConvert ==
    /\ pc = "convert_call"
    /\ module \in {"psi", "crux"}
    /\ metric \in IF module = "psi" THEN PsiMetricNames ELSE CruxMetricKeys
    /\ value \in IF module = "psi" THEN PsiGrid(metric) ELSE CruxGrid(metric)
    /\ status = None
    /\ displayed = None
    /\ LabIdle
    /\ FieldIdle
    /\ NetIdle
    /\ ReportIdle
    /\ FetchIdle
    /\ SanitizeIdle
    /\ CruxIdle
    /\ DiagIdle
    /\ ClientIdle
    /\ EngineIdle

ConvertToDisplayUnit ==
    /\ pc = "convert_call"
    /\ module = "psi"
    /\ displayed' = convert_to_display_unit(metric, value)
    /\ pc' = "convert_return"
    /\ UNCHANGED <<earlyVars, sanitizeVars, cruxVars, diagVars, clientVars, engineVars>>

ConvertP75 ==
    /\ pc = "convert_call"
    /\ module = "crux"
    /\ displayed' = convert_p75(metric, value)
    /\ pc' = "convert_return"
    /\ UNCHANGED <<earlyVars, sanitizeVars, cruxVars, diagVars, clientVars, engineVars>>

NextConvert ==
    \/ ConvertToDisplayUnit
    \/ ConvertP75

SpecConvert == InitConvert /\ [][NextConvert]_vars

(***************************************************************************)
(* Claims on the displayed conversion (SpecConvert)                          *)
(***************************************************************************)
\* The kind a call converts: the lab script's metric name in lower case,
\* the field script's displayed name of the metric key.
ConvertedKind ==
    IF module = "psi" THEN Lower(metric)
    ELSE Get(METRIC_DISPLAY_NAMES, metric, "unknown")

\* The displayed unit of a kind, and one unit of its displayed precision in raw
\* units: 10 ms, 1 ms, 0.001.
ClaimedUnit ==
    [lcp |-> "s", fcp |-> "s", ttfb |-> "s", inp |-> "ms", tbt |-> "ms", cls |-> ""]

OneDisplayUnit ==
    [lcp |-> 10 * Scale, fcp |-> 10 * Scale, ttfb |-> 10 * Scale,
     inp |-> Scale, tbt |-> Scale, cls |-> Scale \div 1000]

\* C24: for LCP, FCP and TTFB (seconds, 2 decimals), INP and TBT
\* (milliseconds, 0 decimals) and CLS (3 decimals), the displayed value
\* converted back differs from the raw value by less than one unit of the
\* displayed precision: 10 ms, 1 ms and 0.001.
C24_RoundTripWithinOneUnit ==
    (pc = "convert_return" /\ ConvertedKind \in DOMAIN ClaimedUnit) =>
        LET unit == OneDisplayUnit[ConvertedKind]
        IN  /\ displayed[2] = ClaimedUnit[ConvertedKind]
            /\ displayed[1] \in {value \div unit, (value + unit - 1) \div unit}

\* A lab LCP of 2504 ms is displayed as 2.5 s, 4 ms off; a field CLS of
\* 0.1004 is displayed as 0.1.
C24_Witness ==
    /\ pc = "convert_return"
    /\ \/ /\ module = "psi"
          /\ metric = "lcp"
          /\ value = 2504 * Scale
          /\ displayed = <<250, "s">>
       \/ /\ module = "crux"
          /\ metric = "cumulative_layout_shift"
          /\ value = 1004
          /\ displayed = <<100, "">>

(***************************************************************************)
(* SpecSanitize: one call of sanitize_for_excel, on None and on texts      *)
(* shorter and longer than the max_length passed, with and without a       *)
(* space near the cut and with and without a form feed.                    *)
(***************************************************************************)
RECURSIVE Run(_, _)
\* n times the character ch.
Run(ch, n) ==
    IF n = 0 THEN ""
    ELSE IF n = 1 THEN ch
    ELSE Run(ch, n \div 2) \o Run(ch, n - (n \div 2))

ShortLength == 5
MiddleLength == 30
LongLength == 120
SpaceAt == 89

SanitizeValues ==
    {None, "", "a\fb",
     Run("x", ShortLength),
     Run("x", MiddleLength),
     Run("x", MiddleLength \div 2) \o " " \o Run("y", MiddleLength \div 2),
     Run("x", MiddleLength) \o "\f",
     Run("x", LongLength),
     Run("x", SpaceAt) \o " " \o Run("y", LongLength - SpaceAt),
     "\f" \o Run("x", SpaceAt) \o " " \o Run("y", LongLength - SpaceAt)}

MaxLengths == {0, 10, 19, 20, 25, 110, DefaultMaxLength}

InitSanitize ==
    /\ pc = "sanitize_call"
    /\ cell_value \in SanitizeValues
    /\ length_limit \in MaxLengths
    /\ sanitized = None
    /\ EarlyIdle
    /\ ConvertIdle
    /\ CruxIdle
    /\ DiagIdle
    /\ ClientIdle
    /\ EngineIdle

SanitizeForExcel ==
    /\ pc = "sanitize_call"
    /\ sanitized' = sanitize_for_excel(cell_value, length_limit) \o ""
    /\ pc' = "sanitize_return"
    /\ UNCHANGED <<earlyVars, convertVars, cell_value, length_limit, cruxVars, diagVars,
                   clientVars, engineVars>>

NextSanitize == SanitizeForExcel

SpecSanitize == InitSanitize /\ [][NextSanitize]_vars

(***************************************************************************)
(* Claims on the sanitizer (SpecSanitize)                                  *)
(***************************************************************************)
Placeholder == "[Content sanitization failed]"

HasIllegal(text) ==
    \E i \in 1..Len(text) : SubSeq(text, i, i) \in IllegalCharacters

\* C25: for every value and every max_length sanitize_for_excel returns a
\* string that holds no illegal control character and has at most max_length
\* characters, or else is the fixed placeholder.
C25_CleanAndWithinMaxLength ==
    pc = "sanitize_return" =>
        /\ ~HasIllegal(sanitized)
        /\ \/ Len(sanitized) <= length_limit
           \/ sanitized = Placeholder

\* What the code does give: a clean string, within max_length whenever
\* max_length leaves room for the cut, that is from 20 on.
C25_CleanAndWithinRoomyMaxLength ==
    pc = "sanitize_return" =>
        /\ ~HasIllegal(sanitized)
        /\ length_limit >= 20 => Len(sanitized) <= length_limit

(***************************************************************************)
(* SpecDescriptions: generate_excel on documents of one URL whose mobile   *)
(* result lists one opportunity, with descriptions shorter than, as long   *)
(* as and longer than DescriptionMax, clean and with a form feed in front  *)
(* or at the end.                                                          *)
(***************************************************************************)
DescriptionLengths ==
    {0, 1, DescriptionMax - 3, DescriptionMax - 2, DescriptionMax - 1, DescriptionMax,
     DescriptionMax + 1,
     DescriptionMax + 3, DescriptionMax + 60}

Descriptions ==
    {Run("x", n) : n \in DescriptionLengths}
        \cup {"\f" \o Run("x", n - 1) : n \in DescriptionLengths \ {0}}
        \cup {Run("x", n - 1) \o "\f" : n \in {m \in DescriptionLengths : m > DescriptionMax - 3}}

DescriptionDocument(desc) ==
    [psi_results |->
        <<[url |-> ReportUrls[1],
           strategies |->
               <<<<"mobile",
                   [performance_score |-> 50,
                    opportunities |->
                        <<[id |-> "unused-javascript", title |-> "Reduce unused JavaScript",
                           savings_ms |-> 300, description |-> desc]>>]>>>>]>>]

InitDescriptions ==
    /\ pc = "generate"
    /\ data \in {DescriptionDocument(desc) : desc \in Descriptions}
    /\ data_file = [kind |-> "json", data |-> data]
    /\ wb = NewWorkbook
    /\ to_build = BuildOrder
    /\ built = <<>>
    /\ saved = <<>>
    /\ report = EmptyDict
    /\ ClassifyIdle
    /\ LabIdle
    /\ FieldIdle
    /\ NetIdle
    /\ FetchIdle
    /\ LateIdle

NextDescriptions ==
    \/ CreateNextSheet
    \/ SaveWorkbook

SpecDescriptions == InitDescriptions /\ [][NextDescriptions]_vars

(***************************************************************************)
(* Claims on the Description cells (SpecDescriptions)                      *)
(***************************************************************************)
DescriptionCell(r) == SavedSheet("Opportunities").rows[r][6].text

DescriptionGiven(r) == Get(OpportunityTriples[r][3], "description", "")

\* C26 as stated: every Description cell has at most 200 characters; a
\* description of at most 200 characters is written unchanged, a longer one
\* as its first 197 characters followed by the three-character ellipsis.
C26_DescriptionCutAsStated ==
    Reported =>
        \A r \in 1..Len(SavedSheet("Opportunities").rows) :
            /\ Len(DescriptionCell(r)) <= DescriptionMax
            /\ Len(DescriptionGiven(r)) <= DescriptionMax =>
                   DescriptionCell(r) = DescriptionGiven(r)
            /\ Len(DescriptionGiven(r)) > DescriptionMax =>
                   DescriptionCell(r) = SubSeq(DescriptionGiven(r), 1, DescriptionMax - 3) \o "..."

\* C26: every Description cell has at most 200 characters; a description of
\* at most 200 characters is written with its illegal control characters
\* removed, hence unchanged when it has none; a longer one is written as
\* its first 197 characters, the illegal ones removed, followed by the
\* three-character ellipsis.  The length that decides is the one before the
\* removal.
C26_DescriptionCut ==
    Reported =>
        \A r \in 1..Len(SavedSheet("Opportunities").rows) :
            /\ Len(DescriptionCell(r)) <= DescriptionMax
            /\ Len(DescriptionGiven(r)) <= DescriptionMax =>
                   DescriptionCell(r) = RemoveIllegal(DescriptionGiven(r))
            /\ (Len(DescriptionGiven(r)) <= DescriptionMax /\ ~HasIllegal(DescriptionGiven(r))) =>
                   DescriptionCell(r) = DescriptionGiven(r)
            /\ Len(DescriptionGiven(r)) > DescriptionMax =>
                   DescriptionCell(r) =
                       RemoveIllegal(SubSeq(DescriptionGiven(r), 1, DescriptionMax - 3)) \o "..."

\* A description of 201 characters that starts with a form feed is cut to
\* 197 and written as 196 characters and the ellipsis.
C26_Witness ==
    /\ Reported
    /\ Len(SavedSheet("Opportunities").rows) = 1
    /\ DescriptionGiven(1) = "\f" \o Run("x", DescriptionMax)
    /\ DescriptionCell(1) = Run("x", DescriptionMax - 4) \o "..."

(***************************************************************************)
(* The field fetch: fetch_crux of fetch_crux.py.  The provider answers the *)
(* query with an HTTP response, or the call times out, or it fails in some *)
(* other way.                                                              *)
(***************************************************************************)
FormFactors == {"PHONE", "DESKTOP", "TABLET", "ALL_FORM_FACTORS"}

ErrorTextMax == 200

NotFoundReason == "The requested URL or origin does not have enough data in CrUX"

\* The provider's record of a page in the dataset.
CruxRecord ==
    [collectionPeriod |-> [firstDate |-> [year |-> 2025, month |-> 9, day |-> 3],
                           lastDate |-> [year |-> 2025, month |-> 9, day |-> 30]],
     metrics |-> CHOOSE items \in FieldItems(1) : Len(items) = 1]

CruxResponses ==
    {[kind |-> "http", status |-> 200, body |-> [record |-> CruxRecord]],
     [kind |-> "http", status |-> 200,
      body |-> [record |-> [metrics |-> CruxRecord.metrics]]],
     [kind |-> "http", status |-> 200, body |-> EmptyDict],
     [kind |-> "http", status |-> 404, text |-> "NOT_FOUND"],
     [kind |-> "http", status |-> 400, text |-> "INVALID_ARGUMENT"],
     [kind |-> "http", status |-> 429, text |-> "quota"],
     [kind |-> "http", status |-> 500, text |-> Run("e", ErrorTextMax + 1)],
     [kind |-> "timeout"],
     [kind |-> "error", message |-> "connection reset"]}

\* The truth value of an optional string argument.
Truthy(text) == text # None /\ text # ""

\* f"{n:02d}" of a natural number.
TwoDigits(n) == IF n < 10 THEN "0" \o ToString(n) ELSE ToString(n)

\* The f-string of a date; the format 02d raises on the default ''.
FormatDate(date) ==
    IF "month" \notin DOMAIN date \/ "day" \notin DOMAIN date THEN None
    ELSE (IF "year" \in DOMAIN date THEN ToString(date.year) ELSE "")
            \o "-" \o TwoDigits(date.month) \o "-" \o TwoDigits(date.day)

\* fetch_crux with a 404 answered like any other failure status.
FetchCruxNotFoundIsFailure(query, response) ==
    IF ~Truthy(query.url) /\ ~Truthy(query.origin)
    THEN [success |-> FALSE, error |-> "Either --url or --origin is required"]
    ELSE IF response.kind = "timeout" THEN [raised |-> "TimeoutError"]
    ELSE IF response.kind = "error" THEN [raised |-> "Exception", message |-> response.message]
    ELSE [success |-> FALSE,
          error |-> "API request failed: " \o ToString(response.status) \o " - "
                        \o SliceTo(Get(response, "text", ""), ErrorTextMax)]

\* fetch_crux: the dict it returns, or the exception it leaves with.
fetch_crux(query, response) ==
    LET query_type == IF Truthy(query.url) THEN "url" ELSE "origin"
        query_value == IF Truthy(query.url) THEN query.url ELSE query.origin
    IN  IF ~Truthy(query.url) /\ ~Truthy(query.origin)
        THEN [success |-> FALSE, error |-> "Either --url or --origin is required"]
        ELSE IF response.kind = "timeout" THEN [raised |-> "TimeoutError"]
        ELSE IF response.kind = "error"
        THEN [raised |-> "Exception", message |-> response.message]
        ELSE IF response.status = 404
        THEN [success |-> TRUE, query_type |-> query_type, query_value |-> query_value,
              form_factor |-> query.form_factor, in_crux |-> FALSE,
              reason |-> NotFoundReason]
        ELSE IF response.status # 200
        THEN [success |-> FALSE,
              error |-> "API request failed: " \o ToString(response.status) \o " - "
                            \o SliceTo(response.text, ErrorTextMax)]
        ELSE LET rec == Get(response.body, "record", EmptyDict)
                 collection_period == Get(rec, "collectionPeriod", EmptyDict)
                 first_date == FormatDate(Get(collection_period, "firstDate", EmptyDict))
                 last_date == FormatDate(Get(collection_period, "lastDate", EmptyDict))
             IN  IF first_date = None \/ last_date = None
                 THEN [raised |-> "ValueError"]
                 ELSE [success |-> TRUE, query_type |-> query_type,
                       query_value |-> query_value, form_factor |-> query.form_factor,
                       in_crux |-> TRUE,
                       collection_period |-> [first_date |-> first_date,
                                              last_date |-> last_date],
                       metrics |-> parse_crux_metrics(rec)]

InitCrux ==
    /\ pc = "crux_call"
    /\ crux_query \in [url : {None, "", ReportUrls[1]},
                        origin : {None, "", "https://example.com"},
                        form_factor : FormFactors]
    /\ crux_response \in CruxResponses
    /\ crux_result = EmptyDict
    /\ EarlyIdle
    /\ ConvertIdle
    /\ SanitizeIdle
    /\ DiagIdle
    /\ ClientIdle
    /\ EngineIdle

FetchCrux ==
    /\ pc = "crux_call"
    /\ crux_result' = fetch_crux(crux_query, crux_response)
    /\ pc' = "crux_return"
    /\ UNCHANGED <<earlyVars, convertVars, sanitizeVars, crux_query, crux_response,
                   diagVars, clientVars, engineVars>>

NextCrux == FetchCrux

SpecCrux == InitCrux /\ [][NextCrux]_vars

(***************************************************************************)
(* Claims on the field fetch (SpecCrux)                                    *)
(***************************************************************************)
\* The provider has answered the query with the given status.
CruxAnswered(statuses) ==
    /\ pc = "crux_return"
    /\ Truthy(crux_query.url) \/ Truthy(crux_query.origin)
    /\ crux_response.kind = "http"
    /\ crux_response.status \in statuses

FailureStatuses == {r.status : r \in {q \in CruxResponses : q.kind = "http"}} \ {200, 404}

\* C21: on a 404 of the provider fetch_crux does not raise and returns
\* success = true, in_crux = false, a reason and no metrics; on any other
\* status but 200 it returns success = false, so that the two are told
\* apart.
C21_NotFoundIsNotAFailure ==
    /\ CruxAnswered({404}) =>
          /\ "raised" \notin DOMAIN crux_result
          /\ crux_result.success = TRUE
          /\ crux_result.in_crux = FALSE
          /\ Len(crux_result.reason) > 0
          /\ "metrics" \notin DOMAIN crux_result
          /\ "error" \notin DOMAIN crux_result
    /\ CruxAnswered(FailureStatuses) =>
          /\ "raised" \notin DOMAIN crux_result
          /\ crux_result.success = FALSE
          /\ "in_crux" \notin DOMAIN crux_result

\* An origin query for phones answered with 404.
C21_Witness ==
    /\ CruxAnswered({404})
    /\ crux_query = [url |-> None, origin |-> "https://example.com", form_factor |-> "PHONE"]
    /\ crux_result = [success |-> TRUE, query_type |-> "origin",
                      query_value |-> "https://example.com", form_factor |-> "PHONE",
                      in_crux |-> FALSE, reason |-> NotFoundReason]

(***************************************************************************)
(* Lab normalizer: parse_diagnostics, fetch_psi.py.  The audits are the    *)
(* provider's items, <<id, audit>> in the provider's order; a score is the *)
(* provider's score times 100.                                             *)
(***************************************************************************)
diagnostic_ids ==
    <<"largest-contentful-paint-element", "layout-shift-elements", "long-tasks",
      "render-blocking-resources", "unused-javascript", "unused-css-rules",
      "modern-image-formats", "uses-responsive-images", "offscreen-images">>

DiagnosticScoreLimit == 90

HasItem(items, name) == \E i \in 1..Len(items) : items[i][1] = name

\* The test of the loop: the audit is taken.
IncludesDiagnostic(audit) ==
    LET score == Get(audit, "score", Null)
    IN  score = Null \/ score[1] < DiagnosticScoreLimit

\* A diagnostic whose locator is the resource URL whenever the first item
\* has one.
DiagnosticUrlFirst(audit_id, audit) ==
    LET diagnostic == [id |-> audit_id, title |-> Get(audit, "title", ""),
                       description |-> Get(audit, "description", "")]
        items == Get(Get(audit, "details", EmptyDict), "items", <<>>)
    IN  IF items = <<>> THEN diagnostic
        ELSE IF "url" \in DOMAIN items[1]
        THEN Put(diagnostic, "resource", items[1].url)
        ELSE IF "node" \in DOMAIN items[1]
        THEN Put(diagnostic, "element", Get(items[1].node, "selector", ""))
        ELSE diagnostic

\* The diagnostic built for an audit that is taken.
Diagnostic(audit_id, audit) ==
    LET diagnostic == [id |-> audit_id, title |-> Get(audit, "title", ""),
                       description |-> Get(audit, "description", "")]
        items == Get(Get(audit, "details", EmptyDict), "items", <<>>)
    IN  IF items = <<>> THEN diagnostic
        ELSE IF "node" \in DOMAIN items[1]
        THEN Put(diagnostic, "element", Get(items[1].node, "selector", ""))
        ELSE IF "url" \in DOMAIN items[1]
        THEN Put(diagnostic, "resource", items[1].url)
        ELSE diagnostic

RECURSIVE CollectDiagnostics(_, _)
\* The loop over diagnostic_ids.
CollectDiagnostics(ids, audits) ==
    IF ids = <<>> THEN <<>>
    ELSE LET audit_id == Head(ids)
             rest == CollectDiagnostics(Tail(ids), audits)
         IN  IF ~HasItem(audits, audit_id) THEN rest
             ELSE IF IncludesDiagnostic(ItemsGet(audits, audit_id, EmptyDict))
             THEN <<Diagnostic(audit_id, ItemsGet(audits, audit_id, EmptyDict))>> \o rest
             ELSE rest

parse_diagnostics(lhr) == CollectDiagnostics(diagnostic_ids, Get(lhr, "audits", <<>>))

(***************************************************************************)
(* SpecDiagnostics: parse_diagnostics on a provider document of up to      *)
(* MaxDiagAudits audits, allow-listed or not, in an order of the           *)
(* provider's, each with one of the scores and one of the details below.   *)
(***************************************************************************)
MaxDiagAudits == 2

DiagAuditIds ==
    {"unused-javascript", "largest-contentful-paint-element", "long-tasks",
     "first-contentful-paint"}

DiagScores == {"no_score", "null_score", "failing", "just_below", "at_limit"}

DiagDetails ==
    {"no_details", "no_items", "node", "node_without_selector", "url", "node_and_url",
     "second_item_only"}

DiagDetailsOf(variant) ==
    CASE variant = "no_items" -> [type |-> "table"]
      [] variant = "node" -> [items |-> <<[node |-> [selector |-> "div.hero > img"]]>>]
      [] variant = "node_without_selector" -> [items |-> <<[node |-> [type |-> "node"]]>>]
      [] variant = "url" -> [items |-> <<[url |-> "https://example.com/app.js"]>>]
      [] variant = "node_and_url" ->
            [items |-> <<[node |-> [selector |-> "img.logo"],
                          url |-> "https://example.com/logo.png"]>>]
      [] OTHER -> [items |-> <<[duration |-> 120],
                               [url |-> "https://example.com/late.js"]>>]

DiagAudit(id, score, details) ==
    LET base == [title |-> id, description |-> "text"]
        scored == CASE score = "no_score" -> base
                    [] score = "null_score" -> Put(base, "score", Null)
                    [] score = "failing" -> Put(base, "score", <<50>>)
                    [] score = "just_below" -> Put(base, "score", <<DiagnosticScoreLimit - 1>>)
                    [] OTHER -> Put(base, "score", <<DiagnosticScoreLimit>>)
    IN  IF details = "no_details" THEN scored
        ELSE Put(scored, "details", DiagDetailsOf(details))

InitDiagnostics ==
    /\ pc = "diag_call"
    /\ \E n \in 0..MaxDiagAudits :
        \E ids \in [1..n -> DiagAuditIds], scores \in [1..n -> DiagScores],
           details \in [1..n -> DiagDetails] :
            /\ \A i, j \in 1..n : i # j => ids[i] # ids[j]
            /\ lighthouse_result \in
                  {[audits |-> [i \in 1..n |->
                                    <<ids[i], DiagAudit(ids[i], scores[i], details[i])>>]]}
                    \cup (IF n = 0 THEN {EmptyDict} ELSE {})
    /\ metrics = EmptyDict
    /\ opportunities = <<>>
    /\ diagnostics = <<>>
    /\ ClassifyIdle
    /\ FieldIdle
    /\ NetIdle
    /\ ReportIdle
    /\ FetchIdle
    /\ ConvertIdle
    /\ SanitizeIdle
    /\ CruxIdle
    /\ ClientIdle
    /\ EngineIdle

ParseDiagnostics ==
    /\ pc = "diag_call"
    /\ diagnostics' = parse_diagnostics(lighthouse_result)
    /\ pc' = "diag_return"
    /\ UNCHANGED <<earlyVars, convertVars, sanitizeVars, cruxVars, clientVars, engineVars>>

NextDiagnostics == ParseDiagnostics

SpecDiagnostics == InitDiagnostics /\ [][NextDiagnostics]_vars

(***************************************************************************)
(* Claims on parse_diagnostics (SpecDiagnostics)                           *)
(***************************************************************************)
GivenAudits == Get(lighthouse_result, "audits", <<>>)

GivenAudit(id) == ItemsGet(GivenAudits, id, EmptyDict)

\* The first detail item of an audit, or the empty dict when it has none.
FirstItem(audit) ==
    LET items == Get(Get(audit, "details", EmptyDict), "items", <<>>)
    IN  IF items = <<>> THEN EmptyDict ELSE items[1]

\* The allow-listed ids that are present with a score absent or below 0.9,
\* in allow-list order.
ExpectedDiagnosticIds ==
    LET Wanted(id) ==
            /\ HasItem(GivenAudits, id)
            /\ \/ "score" \notin DOMAIN GivenAudit(id)
               \/ GivenAudit(id).score = Null
               \/ GivenAudit(id).score[1] < 90
    IN  SelectSeq(diagnostic_ids, Wanted)

\* C23: parse_diagnostics returns, in allow-list order, exactly the
\* allow-listed audits that are present and whose score is absent or below
\* 0.9; each carries at most one locator, of the first detail item only: the
\* selector when that item has a node, also when it has a URL too, otherwise
\* the URL when it has one, and never both.
C23_AllowListedFailingWithOneLocator ==
    pc = "diag_return" =>
        /\ [i \in 1..Len(diagnostics) |-> diagnostics[i].id] = ExpectedDiagnosticIds
        /\ \A i \in 1..Len(diagnostics) :
              LET first == FirstItem(GivenAudit(diagnostics[i].id))
              IN  /\ ~("element" \in DOMAIN diagnostics[i] /\ "resource" \in DOMAIN diagnostics[i])
                  /\ "node" \in DOMAIN first =>
                        /\ "element" \in DOMAIN diagnostics[i]
                        /\ diagnostics[i].element = Get(first.node, "selector", "")
                  /\ ("node" \notin DOMAIN first /\ "url" \in DOMAIN first) =>
                        /\ "resource" \in DOMAIN diagnostics[i]
                        /\ diagnostics[i].resource = first.url
                  /\ ("node" \notin DOMAIN first /\ "url" \notin DOMAIN first) =>
                        /\ "element" \notin DOMAIN diagnostics[i]
                        /\ "resource" \notin DOMAIN diagnostics[i]

\* The provider lists unused-javascript before the largest-contentful-paint
\* element; the result has them in allow-list order, the element located by
\* its selector although its item has a URL too, the script by its URL.
C23_Witness ==
    /\ pc = "diag_return"
    /\ Len(GivenAudits) = 2
    /\ GivenAudits[1][1] = "unused-javascript"
    /\ Len(diagnostics) = 2
    /\ diagnostics[1] = [id |-> "largest-contentful-paint-element",
                         title |-> "largest-contentful-paint-element",
                         description |-> "text", element |-> "img.logo"]
    /\ diagnostics[2] = [id |-> "unused-javascript", title |-> "unused-javascript",
                         description |-> "text",
                         resource |-> "https://example.com/app.js"]
    /\ Get(GivenAudits[1][2], "score", Null) = <<DiagnosticScoreLimit - 1>>

(***************************************************************************)
(* The agent client: run_claude_code of client.py.  The SDK's query yields *)
(* a stream of messages, of which the ResultMessages are read, and may     *)
(* raise instead of yielding the next one.  A cost is Null or <<cents>>, a *)
(* number of turns or a duration Null or <<n>>.                            *)
(***************************************************************************)
MaxMessages == 3

ResultMessage(result_, cost, is_error, n) ==
    [type |-> "ResultMessage", result |-> result_, total_cost_usd |-> cost,
     is_error |-> is_error, session_id |-> "session-" \o ToString(n),
     duration_ms |-> <<1000 * n>>, num_turns |-> <<n>>]

StreamItems ==
    {ResultMessage("report", <<50>>, FALSE, 1),
     ResultMessage("short report", Null, FALSE, 2),
     ResultMessage(None, <<70>>, FALSE, 3),
     ResultMessage("", <<0>>, FALSE, 4),
     ResultMessage(None, Null, TRUE, 5),
     ResultMessage("failed", <<0>>, TRUE, 6),
     ResultMessage("failed late", <<90>>, TRUE, 7),
     [type |-> "ResultMessage", result |-> "bare"],
     [type |-> "AssistantMessage"],
     [raises |-> "stream closed"]}

\* The streams: nothing follows a raise.
Streams ==
    {stream \in UNION {[1..n -> StreamItems] : n \in 0..MaxMessages} :
        \A i \in 1..(Len(stream) - 1) : "raises" \notin DOMAIN stream[i]}

\* The locals before the loop.
InitialLocals ==
    [result_text |-> "", session_id |-> None, total_cost |-> Null, duration_ms |-> Null,
     num_turns |-> Null, is_error |-> FALSE, result_captured |-> FALSE]

\* The truth value of an optional number.
TruthyNumber(n) == n # Null /\ n[1] # 0

\* The body of the loop on a ResultMessage, every message being taken.
OnResultMessageNoSkip(l, message) ==
    LET msg_is_error == Get(message, "is_error", FALSE)
        msg_cost == Get(message, "total_cost_usd", Null)
        msg_result == IF Get(message, "result", None) = None THEN "" ELSE message.result
    IN  [result_text |-> msg_result,
         session_id |-> Get(message, "session_id", None),
         total_cost |-> msg_cost,
         duration_ms |-> Get(message, "duration_ms", Null),
         num_turns |-> Get(message, "num_turns", Null),
         is_error |-> msg_is_error,
         result_captured |->
             \/ l.result_captured
             \/ ~msg_is_error /\ (TruthyNumber(msg_cost) \/ msg_result # "")]

\* The body of the loop on a ResultMessage: the locals after it.
OnResultMessage(l, message) ==
    LET msg_is_error == Get(message, "is_error", FALSE)
        msg_cost == Get(message, "total_cost_usd", Null)
        msg_result == IF Get(message, "result", None) = None THEN "" ELSE message.result
    IN  IF l.result_captured /\ msg_is_error /\ (msg_cost = Null \/ msg_cost[1] = 0)
        THEN l
        ELSE [result_text |-> msg_result,
              session_id |-> Get(message, "session_id", None),
              total_cost |-> msg_cost,
              duration_ms |-> Get(message, "duration_ms", Null),
              num_turns |-> Get(message, "num_turns", Null),
              is_error |-> msg_is_error,
              result_captured |->
                  \/ l.result_captured
                  \/ ~msg_is_error /\ (TruthyNumber(msg_cost) \/ msg_result # "")]

ClaudeCodeResult(result_, session_id, total_cost_usd, duration_ms, num_turns, is_error) ==
    [result |-> result_, session_id |-> session_id, total_cost_usd |-> total_cost_usd,
     duration_ms |-> duration_ms, num_turns |-> num_turns, is_error |-> is_error]

InitClient ==
    /\ pc = "client_loop"
    /\ messages \in [stream : Streams, yielded : {0}]
    /\ locals = InitialLocals
    /\ client_result = EmptyDict
    /\ EarlyIdle
    /\ ConvertIdle
    /\ SanitizeIdle
    /\ CruxIdle
    /\ DiagIdle
    /\ EngineIdle

\* One turn of the loop.
HandleMessage ==
    /\ pc = "client_loop"
    /\ messages.yielded < Len(messages.stream)
    /\ LET message == messages.stream[messages.yielded + 1]
       IN  /\ "raises" \notin DOMAIN message
           /\ locals' = IF message.type = "ResultMessage"
                         THEN OnResultMessage(locals, message) ELSE locals
    /\ messages' = [messages EXCEPT !.yielded = @ + 1]
    /\ UNCHANGED <<pc, client_result, earlyVars, convertVars, sanitizeVars, cruxVars,
                   diagVars, engineVars>>

\* The query raises: the except branch.
QueryRaises ==
    /\ pc = "client_loop"
    /\ messages.yielded < Len(messages.stream)
    /\ LET message == messages.stream[messages.yielded + 1]
       IN  /\ "raises" \in DOMAIN message
           /\ client_result' = ClaudeCodeResult("Error: " \o message.raises, None, Null,
                                                 Null, Null, TRUE)
    /\ pc' = "client_return"
    /\ UNCHANGED <<messages, locals, earlyVars, convertVars, sanitizeVars, cruxVars,
                   diagVars, engineVars>>

\* The stream ends: the return after the loop.
ClientReturn ==
    /\ pc = "client_loop"
    /\ messages.yielded = Len(messages.stream)
    /\ client_result' = ClaudeCodeResult(locals.result_text, locals.session_id,
                                          locals.total_cost, locals.duration_ms,
                                          locals.num_turns, locals.is_error)
    /\ pc' = "client_return"
    /\ UNCHANGED <<messages, locals, earlyVars, convertVars, sanitizeVars, cruxVars,
                   diagVars, engineVars>>

NextClient ==
    \/ HandleMessage
    \/ QueryRaises
    \/ ClientReturn

SpecClient == InitClient /\ [][NextClient]_vars

(***************************************************************************)
(* Claims on the agent client (SpecClient)                                 *)
(***************************************************************************)
IsResult(message) == Get(message, "type", None) = "ResultMessage"

IsErrorResult(message) == IsResult(message) /\ Get(message, "is_error", FALSE)

\* A non-error ResultMessage with a cost or a non-empty result.
IsSuccess(message) ==
    /\ IsResult(message)
    /\ ~Get(message, "is_error", FALSE)
    /\ \/ TruthyNumber(Get(message, "total_cost_usd", Null))
       \/ Get(message, "result", None) \notin {None, ""}

WithoutCost(message) == ~TruthyNumber(Get(message, "total_cost_usd", Null))

\* The returned result carries the text, cost, turns and session of message.
Carries(message) ==
    /\ client_result.is_error = FALSE
    /\ client_result.result = (IF Get(message, "result", None) = None THEN ""
                                ELSE message.result)
    /\ client_result.total_cost_usd = Get(message, "total_cost_usd", Null)
    /\ client_result.num_turns = Get(message, "num_turns", Null)
    /\ client_result.session_id = Get(message, "session_id", None)

C28_ReplacedByCostlyError ==
    /\ pc = "client_return"
    /\ messages.stream = <<ResultMessage("report", <<50>>, FALSE, 1),
                           ResultMessage("failed late", <<90>>, TRUE, 7)>>
    /\ client_result = ClaudeCodeResult("failed late", "session-7", <<90>>, <<7000>>, <<7>>, TRUE)

(***************************************************************************)
(* The engine: analyze_pages of engine.py, from the result of              *)
(* run_claude_code on.  The result is validated, the cost table is put in  *)
(* front of the report, the report is written and the summary returned.    *)
(***************************************************************************)
ReportMinLength == 500

FailureMarker == "SKILL_EXECUTION_FAILED:"

Timestamp == "20260209_101500"

RECURSIVE Strip(_)
\* str.strip() on a text whose whitespace is the space.
Strip(text) ==
    IF Len(text) = 0 THEN text
    ELSE IF SubSeq(text, 1, 1) = " " THEN Strip(SubSeq(text, 2, Len(text)))
    ELSE IF SubSeq(text, Len(text), Len(text)) = " "
    THEN Strip(SubSeq(text, 1, Len(text) - 1))
    ELSE text

\* text.startswith(prefix)
StartsWith(text, prefix) ==
    Len(text) >= Len(prefix) /\ SubSeq(text, 1, Len(prefix)) = prefix

PathAlphabet == "abcdefghijklmnopqrstuvwxyzABCDEFGHIJKLMNOPQRSTUVWXYZ0123456789_./-"

\* The characters of the class [./\w-] that a text of this model can hold.
PathChars == {SubSeq(PathAlphabet, i, i) : i \in 1..Len(PathAlphabet)}

\* _extract_excel_path: the leftmost, longest match of [./\w-]+\.xlsx, or
\* None.
_extract_excel_path(markdown) ==
    LET breaks == {j \in 1..Len(markdown) : SubSeq(markdown, j, j) \notin PathChars}
        ends == {i \in 1..(Len(markdown) - 4) : SubSeq(markdown, i, i + 4) = ".xlsx"}
        StartOf(i) ==
            LET before == {j \in breaks : j < i}
            IN  IF before = {} THEN 1
                ELSE 1 + CHOOSE j \in before : \A k \in before : k <= j
        matching == {i \in ends : StartOf(i) < i}
    IN  IF matching = {} THEN None
        ELSE LET start == CHOOSE b \in {StartOf(i) : i \in matching} :
                              \A i \in matching : b <= StartOf(i)
                 last == CHOOSE i \in matching :
                              /\ StartOf(i) = start
                              /\ \A k \in matching : StartOf(k) = start => k <= i
             IN  SubSeq(markdown, start, last + 4)

\* `x or 0` on an optional number.
OrZero(n) == IF n = Null THEN 0 ELSE n[1]

\* _build_cost_table: the cost in cents with 4 decimals of a dollar, the
\* duration in tenths of a second.
_build_cost_table(agent) ==
    LET cost == OrZero(agent.total_cost_usd)
        turns == OrZero(agent.num_turns)
        tenths == Round(OrZero(agent.duration_ms), 100)
    IN  "---\n## Analysis Metrics\n\n| Metric | Value |\n|--------|-------|\n"
            \o "| **API Cost** | $" \o ToString(cost \div 100) \o "."
            \o TwoDigits(cost % 100) \o "00 |\n"
            \o "| **Agent Turns** | " \o ToString(turns) \o " |\n"
            \o "| **Processing Time** | " \o ToString(tenths \div 10) \o "."
            \o ToString(tenths % 10) \o "s |\n\n---"

\* The validations of analyze_pages but the one of the length.
ValidationWithoutLength(agent) ==
    IF agent.is_error THEN "Page speed analysis failed: " \o agent.result
    ELSE IF StartsWith(Strip(agent.result), FailureMarker)
    THEN "Skill execution failed: " \o agent.result
    ELSE None

\* The validations of analyze_pages: the message of the RuntimeError raised,
\* or None.
Validation(agent) ==
    IF agent.is_error THEN "Page speed analysis failed: " \o agent.result
    ELSE IF StartsWith(Strip(agent.result), FailureMarker)
    THEN "Skill execution failed: " \o agent.result
    ELSE IF Len(agent.result) < ReportMinLength
    THEN "Report too short - analysis may have failed"
    ELSE None

final_markdown(agent) == _build_cost_table(agent) \o "\n\n" \o agent.result

report_path == "output/page_speed_report_" \o Timestamp \o ".md"

(***************************************************************************)
(* SpecEngine: one run of analyze_pages on an agent result that is an      *)
(* error or not, whose text starts with the failure marker, with a space   *)
(* in front of it, with something like it or with neither, names an Excel  *)
(* file or none, and is shorter than, as long as or longer than the        *)
(* minimum.                                                                *)
(***************************************************************************)
ReportOpenings ==
    {prefix \o marker \o link :
        prefix \in {"", " "},
        marker \in {"", FailureMarker, "SKILL_EXECUTION_FAILED"},
        link \in {" report ", " see ./output/page_speed_analysis.xlsx "}}

ReportLengths == {0, ReportMinLength - 1, ReportMinLength, ReportMinLength + 100}

\* The opening, filled up to the length when it is shorter.
ReportText(opening, n) ==
    IF Len(opening) >= n THEN opening ELSE opening \o Run("w", n - Len(opening))

AgentResults ==
    {ClaudeCodeResult(ReportText(opening, n), "session-1", cost, <<65432>>, <<12>>, is_error) :
        opening \in ReportOpenings, n \in ReportLengths, cost \in {Null, <<50>>},
        is_error \in BOOLEAN}

InitEngine ==
    /\ pc = "analyze"
    /\ agent_result \in AgentResults
    /\ report_file = <<>>
    /\ outcome = EmptyDict
    /\ EarlyIdle
    /\ ConvertIdle
    /\ SanitizeIdle
    /\ CruxIdle
    /\ DiagIdle
    /\ ClientIdle

\* The checks on the result, up to the raise of a RuntimeError or to the
\* final markdown.
ValidateResult ==
    /\ pc = "analyze"
    /\ IF Validation(agent_result) # None
       THEN /\ outcome' = [raised |-> "RuntimeError", message |-> Validation(agent_result)]
            /\ pc' = "analyze_exit"
       ELSE /\ pc' = "save"
            /\ UNCHANGED outcome
    /\ UNCHANGED <<agent_result, report_file, earlyVars, convertVars, sanitizeVars, cruxVars,
                   diagVars, clientVars>>

\* report_path.write_text(final_markdown).
WriteReport ==
    /\ pc = "save"
    /\ report_file' = <<[path |-> report_path, text |-> final_markdown(agent_result)]>>
    /\ pc' = "saved"
    /\ UNCHANGED <<agent_result, outcome, earlyVars, convertVars, sanitizeVars, cruxVars,
                   diagVars, clientVars>>

\* The return of analyze_pages.
ReturnAnalysis ==
    /\ pc = "saved"
    /\ outcome' = [markdown |-> final_markdown(agent_result),
                   markdown_path |-> report_path,
                   excel_path |-> _extract_excel_path(agent_result.result),
                   cost_usd |-> OrZero(agent_result.total_cost_usd),
                   duration_sec |-> PyFloat(OrZero(agent_result.duration_ms), 3)]
    /\ pc' = "analyze_exit"
    /\ UNCHANGED <<agent_result, report_file, earlyVars, convertVars, sanitizeVars, cruxVars,
                   diagVars, clientVars>>

NextEngine ==
    \/ ValidateResult
    \/ WriteReport
    \/ ReturnAnalysis

SpecEngine == InitEngine /\ [][NextEngine]_vars

(***************************************************************************)
(* Claims on the engine (SpecEngine)                                       *)
(***************************************************************************)
\* The agent result is an error, starts with the failure marker or is
\* shorter than 500 characters.
Rejected ==
    \/ agent_result.is_error
    \/ StartsWith(agent_result.result, "SKILL_EXECUTION_FAILED:")
    \/ Len(agent_result.result) < 500

\* C29: analyze_pages writes the report file and returns a result only after
\* every validation has passed: whenever the agent result is an error,
\* starts with SKILL_EXECUTION_FAILED: or is shorter than 500 characters, no
\* report file is ever written, nothing is returned, and analyze_pages ends
\* with a RuntimeError; and a result is returned only with the file written.
C29_NoReportWithoutValidation ==
    pc \in {"analyze", "save", "saved", "analyze_exit"} =>
        /\ Rejected =>
              /\ report_file = <<>>
              /\ "markdown" \notin DOMAIN outcome
              /\ pc \notin {"save", "saved"}
              /\ pc = "analyze_exit" => Get(outcome, "raised", None) = "RuntimeError"
        /\ "markdown" \in DOMAIN outcome =>
              /\ report_file # <<>>
              /\ report_file[1].text = outcome.markdown

\* A report of 499 characters that is no error and does not start with the
\* marker: RuntimeError, no file.
C29_Witness ==
    /\ pc = "analyze_exit"
    /\ ~agent_result.is_error
    /\ agent_result.result = ReportText(" report ", ReportMinLength - 1)
    /\ outcome = [raised |-> "RuntimeError",
                  message |-> "Report too short - analysis may have failed"]
    /\ report_file = <<>>

\* A report of 500 characters that names an Excel file: written and returned.
C29_Returned ==
    /\ pc = "analyze_exit"
    /\ agent_result.result = ReportText(" see ./output/page_speed_analysis.xlsx ", ReportMinLength)
    /\ agent_result.total_cost_usd = <<50>>
    /\ report_file # <<>>
    /\ outcome.excel_path = "./output/page_speed_analysis.xlsx"
    /\ StartsWith(outcome.markdown, "---\n## Analysis Metrics\n\n| Metric | Value |\n|--------|-------|\n| **API Cost** | $0.5000 |\n| **Agent Turns** | 12 |\n| **Processing Time** | 65.4s |\n\n---\n\n see ./output")

====
